---- MODULE Spec2Model ----
(***************************************************************************)
(* Token lifecycle (register / login / refresh / logout / access gate) of  *)
(* hw11t9 and hw11_13t9, and the cached students service of hw11-13t9, as  *)
(* a state machine over the users, tokens and students tables and the      *)
(* Redis keys.  Every request handler is split at its database and cache   *)
(* statements: a SELECT is a step of its own (pysqlite runs it outside a   *)
(* transaction), the first UPDATE/INSERT takes SQLite's database-wide      *)
(* write lock, and COMMIT publishes the writes and releases the lock.      *)
(* The calculator of hw6t7 is a separate application with two module-level *)
(* globals; its handlers have no await and run one at a time.              *)
(***************************************************************************)
EXTENDS Integers, Sequences, FiniteSets, TLC

VARIABLES
  users,      \* table users: sequence of rows, id = index
  tokens,     \* table tokens: sequence of rows, id = index (committed state)
  clock,      \* value datetime.utcnow() returns, in minutes
  wlock,      \* request holding SQLite's write lock, or None
  pc,         \* per request slot: position in its handler
  loc,        \* per request slot: the handler's local variables
  resp,       \* per request slot: the last response sent
  issued,     \* number of token pairs generate_token_pair has returned
  redeemed,   \* history: refresh strings a rotation has succeeded with
  revoked,    \* history: access strings whose pair a logout has deactivated
  students,   \* table students: set of rows (committed state)
  cache,      \* Redis db 0: key -> [value, expires_at]
  tasks,      \* background tasks added and not yet started
  marks,      \* history: since when the data a slot holds, and the value under
              \* a key, no longer match the students table
  asked,      \* history: per request slot, the header and the query parameter
              \* of the request its last response answers, when recorded
  current_expression,  \* hw6t7_app: the global of that name, None or a string
  last_result          \* hw6t7_app: the global of that name, <<>> for None

vars == <<users, tokens, clock, wlock, pc, loc, resp, issued, redeemed, revoked,
          students, cache, tasks, marks, asked, current_expression, last_result>>

----------------------------------------------------------------------------
(* Bounds *)

\* number of distinct strings token_urlsafe can return, per kind
NTok == 3

\* largest id a students row is given
MaxId == 2

\* background tasks that may wait to be started
MaxTasks == 1

----------------------------------------------------------------------------
(* Program constants *)

ACCESS_TOKEN_LIFETIME_MINUTES == 15
REFRESH_TOKEN_LIFETIME_DAYS == 7
PASSWORD_SALT == "very-secret-salt-for-homework"

\* the ttl both setex calls pass, in seconds
CACHE_TTL_SECONDS == 60

None == "None"

\* request slots, and the thread that runs background tasks
Workers == {"p1", "p2"}
Procs == Workers \cup {"bg"}

AccessStrings == 1..NTok
RefreshStrings == 1..NTok

\* timedelta(minutes=...), timedelta(days=...) in minutes
AccessLifetime == ACCESS_TOKEN_LIFETIME_MINUTES
RefreshLifetime == REFRESH_TOKEN_LIFETIME_DAYS * 24 * 60

\* the instants the clock is read at: the access expiry of a pair issued at 0
\* met exactly and passed by a minute, and its refresh expiry passed
Instants == {0, AccessLifetime, AccessLifetime + 1, RefreshLifetime + 1}

\* request bodies of POST /auth/register
RegisterPayloads ==
  { [username |-> "alice", password |-> "pw1", is_readonly |-> FALSE],
    [username |-> "bob",   password |-> "pw2", is_readonly |-> TRUE] }

\* request bodies of POST /auth/login
LoginPayloads ==
  { [username |-> u, password |-> w] : u \in {"alice", "bob"}, w \in {"pw1", "pw2"} }

\* credentials of a request: <<Authorization header, access_token query value>>,
\* the header <<scheme, credentials>> (<<None, 0>>: no header), 0 the empty or
\* absent string
Credentials ==
  { <<<<"Bearer", t>>, 0>> : t \in AccessStrings } \cup { <<<<None, 0>>, 0>> }

----------------------------------------------------------------------------
(* security.py *)

\* credentials with the header and the query parameter varied independently:
\* no header, "Bearer <t>", "Bearer " with nothing after it, another scheme;
\* no or a blank query parameter, or a token in it
GateCredentials ==
  { <<h, q>> : h \in { <<None, 0>>, <<"Bearer", 0>> }
                      \cup { <<scheme, t>> : scheme \in {"Bearer", "Basic"},
                                             t \in AccessStrings },
               q \in {0} \cup AccessStrings }

HashPassword(raw) == <<"sha256", PASSWORD_SALT, raw>>

VerifyPassword(raw, hashed) == HashPassword(raw) = hashed

\* token_str as get_current_token extracts it; 0 when there is none
HeaderToken(auth_header) ==
  IF auth_header[1] = "Bearer" THEN auth_header[2] ELSE 0

TokenStrQueryFirst(auth_header, access_token_q) ==
  IF access_token_q # 0 THEN access_token_q ELSE HeaderToken(auth_header)

TokenStr(auth_header, access_token_q) ==
  IF HeaderToken(auth_header) # 0 THEN HeaderToken(auth_header)
  ELSE access_token_q

Min(S) == CHOOSE x \in S : \A y \in S : x <= y

\* Query.first(): the first matching row id, 0 when there is none
First(S) == IF S = {} THEN 0 ELSE Min(S)

UserNeverFound(name) == 0

UserByUsername(name) ==
  First({i \in DOMAIN users : users[i].username = name})

TokenByAccessUnfiltered(s) ==
  First({i \in DOMAIN tokens : tokens[i].access_token = s})

TokenByAccess(s) ==
  First({i \in DOMAIN tokens : tokens[i].access_token = s /\ tokens[i].is_active})

TokenByRefreshUnfiltered(s) ==
  First({i \in DOMAIN tokens : tokens[i].refresh_token = s})

TokenByRefresh(s) ==
  First({i \in DOMAIN tokens : tokens[i].refresh_token = s /\ tokens[i].is_active})

AccessNeverExpires(row, now) == FALSE

AccessExpired(row, now) == row.access_expires_at < now

RefreshExpired(row, now) == row.refresh_expires_at < now

GateOutcomeIgnoringOwner(token_str, now) ==
  IF token_str = 0 THEN "Missing access token"
  ELSE LET t == TokenByAccess(token_str) IN
    IF t = 0 \/ AccessExpired(tokens[t], now) THEN "Token expired or invalid"
    ELSE "ok"

\* outcome of get_current_token: the detail of its 401, or "ok"
GateOutcome(token_str, now) ==
  IF token_str = 0 THEN "Missing access token"
  ELSE LET t == TokenByAccess(token_str) IN
    IF t = 0 \/ AccessExpired(tokens[t], now) THEN "Token expired or invalid"
    ELSE IF ~users[tokens[t].user_id].is_active THEN "User is inactive"
    ELSE "ok"

----------------------------------------------------------------------------
(* The store: SQLite behind one SQLAlchemy session per request *)

LockNeverHeld(p) == TRUE

\* the first UPDATE/INSERT of a transaction needs the database write lock
WriteLockFree(p) == wlock \in {None, p}

\* UNIQUE(access_token), UNIQUE(refresh_token) against the rows other than `self`
NoUniqueViolation(a, r, self) == FALSE

UniqueViolation(a, r, self) ==
  \E i \in DOMAIN tokens :
    i # self /\ (tokens[i].access_token = a \/ tokens[i].refresh_token = r)

----------------------------------------------------------------------------
(* cache.py: the Redis client and the keys of the students service *)

\* "students:list" and f"students:{student_id}", split at the colon
ListKey == <<"students", "list">>

Digits == <<"0", "1", "2", "3", "4", "5", "6", "7", "8", "9">>

\* str() of a one-digit id
Str(i) == Digits[i + 1]

ItemKey(student_id) == <<"students", Str(student_id)>>

\* "students:*"
StudentsPattern == <<"students", "*">>

MatchesListOnly(key, pattern) == key = ListKey

\* glob match of a key against a pattern with at most a trailing star
KeyMatches(key, pattern) ==
  key[1] = pattern[1] /\ (pattern[2] = "*" \/ key[2] = pattern[2])

\* setex's ttl on the scale of the clock
CacheTtl == CACHE_TTL_SECONDS \div 60

\* a key Redis still holds at the current instant
Live(key) == key \in DOMAIN cache /\ clock < cache[key].expires_at

\* redis_client.get: the stored string, <<>> for None
RedisGet(key) == IF Live(key) THEN cache[key].value ELSE <<>>

SetNoExpiry(key, ttl, value) ==
  [k \in DOMAIN cache \cup {key} |->
     IF k = key THEN [value |-> value, expires_at |-> clock + ttl + RefreshLifetime]
     ELSE cache[k]]

\* redis_client.setex(key, ttl, value)
SetEx(key, ttl, value) ==
  [k \in DOMAIN cache \cup {key} |->
     IF k = key THEN [value |-> value, expires_at |-> clock + ttl] ELSE cache[k]]

DeleteNothing(key) == cache

\* redis_client.delete(key)
Delete(key) == [k \in DOMAIN cache \ {key} |-> cache[k]]

ScanNothing(pattern) == {}

\* the keys redis_client.scan_iter(pattern) yields
ScanIter(pattern) == {k \in DOMAIN cache : Live(k) /\ KeyMatches(k, pattern)}

\* json.dumps / json.loads: the document as a string, and back
JsonDumps(data) == <<"json", data>>

JsonLoads(text) == text[2]

\* `if cached:` -- None and the empty string are false
Truthy(cached) == Len(cached) > 0

----------------------------------------------------------------------------
(* Responses and locals *)

NoPayload == [username |-> None, password |-> None, is_readonly |-> FALSE]

\* payload: the request body; uid: user.id; row: token_obj.id; stale: ids the
\* UPDATE of login matched; loaded: the token strings token_obj was loaded with
\* body: the JSON document of a students response, <<>> when it has none
Response(op, status, detail, presented, a, r) ==
  [op |-> op, status |-> status, detail |-> detail, presented |-> presented,
   access_token |-> a, refresh_token |-> r, body |-> <<>>]

NoResponse == Response(None, 0, None, 0, 0, 0)

\* student_id: the path parameter; data: what the handler read from the store;
\* keys: the keys scan_iter has still to yield; reply: what the handler returns
\* once the cache is invalidated
NoLoc == [payload |-> NoPayload, uid |-> 0, row |-> 0, stale |-> {},
          loaded |-> <<0, 0>>, presented |-> 0,
          student_id |-> 0, data |-> <<>>, keys |-> {}, reply |-> NoResponse]

\* no header and no query parameter recorded
NoRequest == <<<<None, 0>>, 0>>

Reply(p, r) ==
  /\ resp' = [resp EXCEPT ![p] = r]
  /\ pc' = [pc EXCEPT ![p] = "idle"]
  /\ loc' = [loc EXCEPT ![p] = NoLoc]
  /\ asked' = [asked EXCEPT ![p] = NoRequest]
  /\ UNCHANGED <<current_expression, last_result>>

Goto(p, label, l) ==
  /\ pc' = [pc EXCEPT ![p] = label]
  /\ loc' = [loc EXCEPT ![p] = l]
  /\ resp' = [resp EXCEPT ![p] = NoResponse]
  /\ asked' = [asked EXCEPT ![p] = NoRequest]
  /\ UNCHANGED <<current_expression, last_result>>

\* history mark of data that match the students table
Matching == [stale |-> FALSE, since |-> 0, put_stale |-> FALSE, kept |-> FALSE]

Init ==
  /\ users = <<>>
  /\ tokens = <<>>
  /\ clock = 0
  /\ wlock = None
  /\ pc = [p \in Procs |-> "idle"]
  /\ loc = [p \in Procs |-> NoLoc]
  /\ resp = [p \in Procs |-> NoResponse]
  /\ issued = 0
  /\ redeemed = {}
  /\ revoked = {}
  /\ students = {}
  /\ cache = [k \in {} |-> <<>>]
  /\ tasks = <<>>
  /\ marks = [held |-> [p \in Procs |-> Matching], keys |-> [k \in {} |-> <<>>]]
  /\ asked = [p \in Procs |-> NoRequest]
  /\ current_expression = None
  /\ last_result = <<>>

\* datetime.utcnow() advances between two statements, and Redis drops the keys
\* whose ttl has run out
Tick(t) ==
  /\ t > clock
  /\ clock' = t
  /\ cache' = [k \in {j \in DOMAIN cache : t < cache[j].expires_at} |-> cache[k]]
  /\ marks' = [marks EXCEPT !.keys = [k \in DOMAIN cache' |-> @[k]]]
  /\ UNCHANGED <<users, tokens, wlock, pc, loc, resp, issued, redeemed, revoked,
                 students, tasks, asked, current_expression, last_result>>

\* generate_token_pair: secrets.token_urlsafe(32) and (48) draw 256 and 384
\* random bits, so a pair is modelled as never returned before: the strings
\* being interchangeable, the pair is the first unused one of each kind
GeneratedPairs == {<<issued + 1, issued + 1>>}

\* requests between their first step and their generate_token_pair call
Generating == {p \in Procs : pc[p] \in {"login_deactivate", "login_insert", "refresh_commit"}}

\* bound: a handler that will generate a pair starts while strings are left
StringsLeft == issued + Cardinality(Generating) < NTok

----------------------------------------------------------------------------
(* POST /auth/register *)

\* the SELECT of an existing user, and the 400 when there is one
RegisterLookup(p, payload) ==
  /\ pc[p] = "idle"
  /\ IF UserByUsername(payload.username) # 0
     THEN Reply(p, Response("register", 400, "Username already exists", 0, 0, 0))
     ELSE Goto(p, "register_commit", [NoLoc EXCEPT !.payload = payload])
  /\ UNCHANGED <<users, tokens, clock, wlock, issued, redeemed, revoked, students, cache, tasks, marks>>

\* db.add(user); db.commit(): INSERT under the write lock, UNIQUE(username)
RegisterCommit(p) ==
  /\ pc[p] = "register_commit"
  /\ WriteLockFree(p)
  /\ LET payload == loc[p].payload IN
     IF \E i \in DOMAIN users : users[i].username = payload.username
     THEN /\ Reply(p, Response("register", 500, "IntegrityError", 0, 0, 0))
          /\ UNCHANGED users
     ELSE /\ users' = Append(users,
               [username |-> payload.username,
                password_hash |-> HashPassword(payload.password),
                is_readonly |-> payload.is_readonly,
                is_active |-> TRUE])
          /\ Reply(p, Response("register", 201, "User registered successfully", 0, 0, 0))
  /\ UNCHANGED <<tokens, clock, wlock, issued, redeemed, revoked, students, cache, tasks, marks>>

\* the administrative flip of users.is_active (data model: "deactivated flag
\* may be flipped administratively")
AdminDeactivate(uid) ==
  /\ uid \in DOMAIN users
  /\ users[uid].is_active
  /\ wlock = None
  /\ users' = [users EXCEPT ![uid].is_active = FALSE]
  /\ UNCHANGED <<tokens, clock, wlock, pc, loc, resp, issued, redeemed, revoked, students, cache, tasks, marks, asked, current_expression, last_result>>

----------------------------------------------------------------------------
(* POST /auth/login *)

LoginRejectedUnknownOnly(uid, password) == uid = 0

\* `not user or not verify_password(payload.password, user.password_hash)`
LoginRejected(uid, password) ==
  uid = 0 \/ ~VerifyPassword(password, users[uid].password_hash)

LoginFailureNamingCause(uid) ==
  IF uid = 0 THEN Response("login", 404, "User not found", 0, 0, 0)
  ELSE Response("login", 401, "Invalid username or password", 0, 0, 0)

\* the one HTTPException raised for an unknown username and for a wrong password
LoginFailure(uid) == Response("login", 401, "Invalid username or password", 0, 0, 0)

\* the SELECT of the user and the 401
LoginLookup(p, payload) ==
  /\ pc[p] = "idle"
  /\ StringsLeft
  /\ LET uid == UserByUsername(payload.username) IN
     IF LoginRejected(uid, payload.password)
     THEN Reply(p, LoginFailure(uid))
     ELSE Goto(p, "login_deactivate", [NoLoc EXCEPT !.payload = payload, !.uid = uid])
  /\ UNCHANGED <<users, tokens, clock, wlock, issued, redeemed, revoked, students, cache, tasks, marks>>

NoStaleTokenIds(uid) == {}

StaleTokenIdsOfAnyUser(uid) == DOMAIN tokens

\* rows matched by UPDATE tokens SET is_active = false WHERE user_id = :uid
StaleTokenIds(uid) == {i \in DOMAIN tokens : tokens[i].user_id = uid}

\* the UPDATE: it opens the write transaction
LoginDeactivate(p) ==
  /\ pc[p] = "login_deactivate"
  /\ WriteLockFree(p)
  /\ wlock' = p
  /\ pc' = [pc EXCEPT ![p] = "login_insert"]
  /\ loc' = [loc EXCEPT ![p].stale = StaleTokenIds(loc[p].uid)]
  /\ UNCHANGED <<users, tokens, clock, resp, issued, redeemed, revoked, students, cache, tasks, marks, asked, current_expression, last_result>>

NewTokenLifetimesSwapped(uid, a, r, now1, now2) ==
  [user_id |-> uid, access_token |-> a, refresh_token |-> r,
   access_expires_at |-> now1 + RefreshLifetime,
   refresh_expires_at |-> now2 + AccessLifetime,
   is_active |-> TRUE]

NewToken(uid, a, r, now1, now2) ==
  [user_id |-> uid, access_token |-> a, refresh_token |-> r,
   access_expires_at |-> now1 + AccessLifetime,
   refresh_expires_at |-> now2 + RefreshLifetime,
   is_active |-> TRUE]

Deactivated(stale) ==
  [i \in DOMAIN tokens |->
     IF i \in stale THEN [tokens[i] EXCEPT !.is_active = FALSE] ELSE tokens[i]]


\* generate_token_pair, db.add(token_obj), db.commit(): INSERT and COMMIT; an
\* IntegrityError leaves the handler, and get_db's db.close() rolls back
LoginInsert(p, a, r) ==
  /\ pc[p] = "login_insert"
  /\ issued' = issued + 1
  /\ wlock' = None
  /\ IF UniqueViolation(a, r, 0)
     THEN /\ UNCHANGED tokens
          /\ Reply(p, Response("login", 500, "IntegrityError", 0, 0, 0))
     ELSE /\ tokens' = Append(Deactivated(loc[p].stale),
                              NewToken(loc[p].uid, a, r, clock, clock))
          /\ Reply(p, Response("login", 200, "ok", 0, a, r))
  /\ UNCHANGED <<users, clock, redeemed, revoked, students, cache, tasks, marks>>

----------------------------------------------------------------------------
(* POST /auth/refresh *)

RefreshRejectedIgnoringOwner(t, now) == t = 0 \/ RefreshExpired(tokens[t], now)

RefreshRejected(t, now) ==
  \/ t = 0
  \/ RefreshExpired(tokens[t], now)
  \/ ~users[tokens[t].user_id].is_active

\* the SELECT of the active row, the expiry and owner checks, and the 401
RefreshLookup(p, refresh_token) ==
  /\ pc[p] = "idle"
  /\ StringsLeft
  /\ LET t == TokenByRefresh(refresh_token) IN
     IF RefreshRejected(t, clock)
     THEN Reply(p, Response("refresh", 401, "Invalid or expired refresh token",
                            refresh_token, 0, 0))
     ELSE Goto(p, "refresh_commit",
               [NoLoc EXCEPT !.row = t, !.presented = refresh_token,
                             !.loaded = <<tokens[t].access_token, tokens[t].refresh_token>>])
  /\ UNCHANGED <<users, tokens, clock, wlock, issued, redeemed, revoked, students, cache, tasks, marks>>

RotatedKeepingRefresh(row, loaded, a, r, now1, now2) ==
  [row EXCEPT !.access_token = IF a = loaded[1] THEN @ ELSE a,
              !.access_expires_at = now1 + AccessLifetime,
              !.refresh_expires_at = now2 + RefreshLifetime]

RotatedKeepingAccess(row, loaded, a, r, now1, now2) ==
  [row EXCEPT !.refresh_token = IF r = loaded[2] THEN @ ELSE r,
              !.access_expires_at = now1 + AccessLifetime,
              !.refresh_expires_at = now2 + RefreshLifetime]

RotatedKeepingExpiries(row, loaded, a, r, now1, now2) ==
  [row EXCEPT !.access_token = IF a = loaded[1] THEN @ ELSE a,
              !.refresh_token = IF r = loaded[2] THEN @ ELSE r]

\* the UPDATE the session flushes: the attributes that differ from the loaded ones
Rotated(row, loaded, a, r, now1, now2) ==
  [row EXCEPT !.access_token = IF a = loaded[1] THEN @ ELSE a,
              !.refresh_token = IF r = loaded[2] THEN @ ELSE r,
              !.access_expires_at = now1 + AccessLifetime,
              !.refresh_expires_at = now2 + RefreshLifetime]

\* generate_token_pair, the four assignments and db.commit(): UPDATE ... WHERE id
RefreshCommit(p, a, r) ==
  /\ pc[p] = "refresh_commit"
  /\ WriteLockFree(p)
  /\ issued' = issued + 1
  /\ LET t == loc[p].row
         new == Rotated(tokens[t], loc[p].loaded, a, r, clock, clock)
     IN IF UniqueViolation(new.access_token, new.refresh_token, t)
        THEN /\ UNCHANGED <<tokens, redeemed>>
             /\ Reply(p, Response("refresh", 500, "IntegrityError", loc[p].presented, 0, 0))
        ELSE /\ tokens' = [tokens EXCEPT ![t] = new]
             /\ redeemed' = redeemed \cup {loc[p].presented}
             /\ Reply(p, Response("refresh", 200, "ok", loc[p].presented, a, r))
  /\ UNCHANGED <<users, clock, wlock, revoked, students, cache, tasks, marks>>

----------------------------------------------------------------------------
(* The access gate and POST /auth/logout *)

TokensAfterSlidingGate(t, now) ==
  IF t = 0 THEN tokens
  ELSE [tokens EXCEPT ![t].access_expires_at = now + AccessLifetime]

\* the token rows once get_current_token has run for row t: it issues one
\* SELECT and neither assigns an attribute nor commits
TokensAfterGate(t, now) == tokens

\* a request to an endpoint that only depends on get_current_user
ValidateAccess(p, auth_header, access_token_q) ==
  /\ pc[p] = "idle"
  /\ LET s == TokenStr(auth_header, access_token_q)
         out == GateOutcome(s, clock)
     IN /\ resp' = [resp EXCEPT ![p] = Response("validate", IF out = "ok" THEN 200 ELSE 401,
                                                 out, s, 0, 0)]
        /\ tokens' = TokensAfterGate(TokenByAccess(s), clock)
  /\ asked' = [asked EXCEPT ![p] = <<auth_header, access_token_q>>]
  /\ UNCHANGED <<current_expression, last_result>>
  /\ UNCHANGED <<pc, loc>>
  /\ UNCHANGED <<users, clock, wlock, issued, redeemed, revoked, students, cache, tasks, marks>>

\* the dependency get_current_token of logout
LogoutGate(p, auth_header, access_token_q) ==
  /\ pc[p] = "idle"
  /\ LET s == TokenStr(auth_header, access_token_q)
         out == GateOutcome(s, clock)
     IN /\ IF out # "ok"
           THEN Reply(p, Response("logout", 401, out, s, 0, 0))
           ELSE Goto(p, "logout_commit",
                     [NoLoc EXCEPT !.row = TokenByAccess(s), !.presented = s])
        /\ tokens' = TokensAfterGate(TokenByAccess(s), clock)
  /\ UNCHANGED <<users, clock, wlock, issued, redeemed, revoked, students, cache, tasks, marks>>

\* token_obj.is_active = False; db.commit()
LogoutCommit(p) ==
  /\ pc[p] = "logout_commit"
  /\ WriteLockFree(p)
  /\ tokens' = [tokens EXCEPT ![loc[p].row].is_active = FALSE]
  /\ revoked' = revoked \cup {loc[p].presented}
  /\ Reply(p, Response("logout", 200, "Logged out successfully", loc[p].presented, 0, 0))
  /\ UNCHANGED <<users, clock, wlock, issued, redeemed, students, cache, tasks, marks>>

\* a write that finds the database locked until sqlite3's timeout
WriteTimeout(p) ==
  /\ pc[p] \in {"register_commit", "login_deactivate", "refresh_commit", "logout_commit"}
  /\ ~WriteLockFree(p)
  /\ Reply(p, Response(None, 500, "database is locked", 0, 0, 0))
  /\ UNCHANGED <<users, tokens, clock, wlock, issued, redeemed, revoked, students, cache, tasks, marks>>

----------------------------------------------------------------------------
(* security.py require_write_user, repositories.py, routers/students.py *)

RequireWriteAllowsAll(user) == FALSE

\* `if user.is_readonly:` of require_write_user
ReadonlyRefused(user) == user.is_readonly

RequireWriteUserRoleFirst(token_str, now) ==
  LET t == TokenByAccessUnfiltered(token_str)
      out == GateOutcome(token_str, now)
  IN IF t # 0 /\ ReadonlyRefused(users[tokens[t].user_id])
     THEN <<403, "Read-only user cannot modify data">>
     ELSE IF out # "ok" THEN <<401, out>> ELSE <<200, "ok">>

\* outcome of the dependency chain get_current_token, get_current_user,
\* require_write_user: <<status, detail>>
RequireWriteUser(token_str, now) ==
  LET out == GateOutcome(token_str, now) IN
    IF out # "ok" THEN <<401, out>>
    ELSE IF ReadonlyRefused(users[tokens[TokenByAccess(token_str)].user_id])
         THEN <<403, "Read-only user cannot modify data">>
         ELSE <<200, "ok">>

\* request bodies of POST /students
StudentPayloads ==
  { [last_name |-> "Ivanov", first_name |-> "Petr", faculty |-> "FPMI",
     course |-> "Analysis", grade |-> 75] }

\* request bodies of PUT /students/{student_id}: the fields the request sets
UpdatePayloads ==
  { [grade |-> 60] }

\* request bodies of POST /students/bulk-delete
BulkDeletePayloads == { {}, {1}, 1..MaxId }

StudentIds == 1..MaxId

\* the files a CSVImportRequest may name: rows as csv.DictReader yields them,
\* the columns under the names of the Student attributes they fill; decodes:
\* whether the reader gets past the last of these rows, or raises
\* UnicodeDecodeError there
CsvFiles ==
  [path \in {"students.csv", "missing.csv", "broken.csv"} |->
     IF path = "missing.csv" THEN [exists |-> FALSE, decodes |-> TRUE, rows |-> <<>>]
     ELSE IF path = "broken.csv"
     THEN [exists |-> TRUE, decodes |-> FALSE,
           rows |-> << [last_name |-> "Belov", first_name |-> "Anton",
                        faculty |-> "FKN", course |-> "Physics", grade |-> "88"] >>]
     ELSE [exists |-> TRUE, decodes |-> TRUE,
           rows |-> << [last_name |-> " Smirnov", first_name |-> "Oleg",
                        faculty |-> "", course |-> "Physics", grade |-> "88"],
                       [last_name |-> "Orlov", first_name |-> "Ivan",
                        faculty |-> "FKN", course |-> " ", grade |-> "88"],
                       [last_name |-> "Popov", first_name |-> "",
                        faculty |-> "FKN", course |-> "Physics", grade |-> "88"],
                       [last_name |-> "Volkov", first_name |-> "Igor",
                        faculty |-> "FKN", course |-> "Physics", grade |-> "n/a"] >>]]

\* str.strip()
Strip(s) ==
  IF s = " " THEN "" ELSE IF s = " Smirnov" THEN "Smirnov" ELSE s

\* float(text): <<TRUE, value>>, or <<FALSE, 0>> for the ValueError
ParseFloat(text) == IF text = "88" THEN <<TRUE, 88>> ELSE <<FALSE, 0>>

\* the rows the loop of import_students_from_csv_task does not `continue` past
Imported(row) ==
  /\ row.last_name # "" /\ row.first_name # ""
  /\ Strip(row.course) # ""
  /\ ParseFloat(row.grade)[1]

\* Student(...) of the import loop
CsvStudent(row) ==
  [last_name |-> Strip(row.last_name), first_name |-> Strip(row.first_name),
   faculty |-> Strip(row.faculty), course |-> Strip(row.course),
   grade |-> ParseFloat(row.grade)[2]]

Max(S) == CHOOSE x \in S : \A y \in S : x >= y

\* the rowid SQLite gives the next INSERT: the largest rowid in the table + 1
NewId == IF students = {} THEN 1 ELSE Max({s.id : s \in students}) + 1

\* a committed Student row
NewStudent(id, data) ==
  [id |-> id, last_name |-> data.last_name, first_name |-> data.first_name,
   faculty |-> data.faculty, course |-> data.course, grade |-> data.grade]

\* db.get(Student, student_id): the set holding the row, {} when there is none
StudentById(student_id) == {s \in students : s.id = student_id}

\* the fields of StudentUpdate, each None by default
StudentUpdateFields == {"last_name", "first_name", "faculty", "course", "grade"}

UpdatedWithUnsetFields(student, update_data) ==
  [f \in DOMAIN student |->
     IF f \in DOMAIN update_data THEN update_data[f]
     ELSE IF f \in StudentUpdateFields THEN None ELSE student[f]]

\* the setattr loop over data.dict(exclude_unset=True)
Updated(student, update_data) ==
  [f \in DOMAIN student |->
     IF f \in DOMAIN update_data THEN update_data[f] ELSE student[f]]

\* StudentOut.model_validate(s).model_dump(mode="json")
StudentOut(s) ==
  [id |-> s.id, last_name |-> s.last_name, first_name |-> s.first_name,
   faculty |-> s.faculty, course |-> s.course, grade |-> s.grade]

RECURSIVE RowsFrom(_)
\* db.query(Student).all() from rowid i on, dumped
RowsFrom(i) ==
  IF i > MaxId THEN <<>>
  ELSE (IF StudentById(i) = {} THEN <<>>
        ELSE <<StudentOut(CHOOSE s \in students : s.id = i)>>) \o RowsFrom(i + 1)

WithBody(r, body) == [r EXCEPT !.body = body]

\* the document a read handler computes for a key equals data
Matches(key, data) ==
  IF key = ListKey THEN data = RowsFrom(1)
  ELSE \E s \in students : ItemKey(s.id) = key /\ StudentOut(s) = data

\* the key a slot between its store read and its setex will put under
HeldKey(p) == IF pc[p] = "list_put" THEN ListKey ELSE ItemKey(loc[p].student_id)

\* history: a mark after a commit at instant now
Restamp(mark, matches, now) ==
  IF matches THEN [mark EXCEPT !.stale = FALSE, !.since = 0]
  ELSE IF mark.stale THEN mark
  ELSE [mark EXCEPT !.stale = TRUE, !.since = now]

\* Matches in the state a step leads to, of a key and data of the state it
\* leaves
MatchesNext(key, data) == \E k \in {key}, d \in {data} : Matches(k, d)'

\* history: a commit to the students table re-marks what slots hold and what
\* the cache holds
StaleAfterCommit ==
  marks' =
    [held |-> [q \in Procs |->
                 IF pc[q] \in {"list_put", "get_put"}
                 THEN Restamp(marks.held[q], MatchesNext(HeldKey(q), loc[q].data), clock)
                 ELSE marks.held[q]],
     keys |-> [k \in DOMAIN cache |->
                 Restamp(marks.keys[k], MatchesNext(k, JsonLoads(cache[k].value)), clock)]]

\* history: slot p puts what it holds under key
StaleAfterPut(p, key) ==
  marks' =
    [held |-> [marks.held EXCEPT ![p] = Matching],
     keys |-> [k \in DOMAIN cache \cup {key} |->
                 IF k = key THEN [marks.held[p] EXCEPT !.put_stale = marks.held[p].stale]
                 ELSE marks.keys[k]]]

\* POST /students: the dependencies, then repo.create
CreateStudent(p, auth_header, access_token_q, payload) ==
  /\ pc[p] = "idle"
  /\ LET s == TokenStr(auth_header, access_token_q)
         gate == RequireWriteUser(s, clock)
         student == NewStudent(NewId, payload)
     IN IF gate[1] # 200
        THEN /\ Reply(p, Response("create", gate[1], gate[2], s, 0, 0))
             /\ UNCHANGED students
        ELSE /\ WriteLockFree(p)
             /\ NewId <= MaxId
             /\ students' = students \cup {student}
             /\ Goto(p, "invalidate",
                     [NoLoc EXCEPT !.reply = WithBody(Response("create", 201, "ok", s, 0, 0),
                                                      StudentOut(student))])
  /\ StaleAfterCommit
  /\ UNCHANGED <<users, tokens, clock, wlock, issued, redeemed, revoked, cache, tasks>>

RaiseNotFoundAfterInvalidating(p, op, s) ==
  Goto(p, "invalidate",
       [NoLoc EXCEPT !.reply = Response(op, 404, "Student not found", s, 0, 0)])

\* `if not student:` / `if not ok:` raise HTTPException(404), ahead of the
\* call of invalidate_students_cache
RaiseNotFound(p, op, s) == Reply(p, Response(op, 404, "Student not found", s, 0, 0))

\* PUT /students/{student_id}: the dependencies, then repo.update
UpdateStudent(p, auth_header, access_token_q, student_id, update_data) ==
  /\ pc[p] = "idle"
  /\ LET s == TokenStr(auth_header, access_token_q)
         gate == RequireWriteUser(s, clock)
         found == StudentById(student_id)
     IN IF gate[1] # 200
        THEN /\ Reply(p, Response("update", gate[1], gate[2], s, 0, 0))
             /\ UNCHANGED students
        ELSE IF found = {}
        THEN /\ RaiseNotFound(p, "update", s)
             /\ UNCHANGED students
        ELSE LET student == Updated(CHOOSE x \in found : TRUE, update_data) IN
             /\ WriteLockFree(p)
             /\ students' = (students \ found) \cup {student}
             /\ Goto(p, "invalidate",
                     [NoLoc EXCEPT !.reply = WithBody(Response("update", 200, "ok", s, 0, 0),
                                                      StudentOut(student))])
  /\ StaleAfterCommit
  /\ UNCHANGED <<users, tokens, clock, wlock, issued, redeemed, revoked, cache, tasks>>

\* DELETE /students/{student_id}: the dependencies, then repo.delete
DeleteStudent(p, auth_header, access_token_q, student_id) ==
  /\ pc[p] = "idle"
  /\ LET s == TokenStr(auth_header, access_token_q)
         gate == RequireWriteUser(s, clock)
         found == StudentById(student_id)
     IN IF gate[1] # 200
        THEN /\ Reply(p, Response("delete", gate[1], gate[2], s, 0, 0))
             /\ UNCHANGED students
        ELSE IF found = {}
        THEN /\ RaiseNotFound(p, "delete", s)
             /\ UNCHANGED students
        ELSE /\ WriteLockFree(p)
             /\ students' = students \ found
             /\ Goto(p, "invalidate",
                     [NoLoc EXCEPT !.reply = Response("delete", 204, "ok", s, 0, 0)])
  /\ StaleAfterCommit
  /\ UNCHANGED <<users, tokens, clock, wlock, issued, redeemed, revoked, cache, tasks>>

\* invalidate_students_cache: scan_iter collects the matching keys
InvalidateScan(p) ==
  /\ pc[p] = "invalidate"
  /\ pc' = [pc EXCEPT ![p] = "invalidate_delete"]
  /\ loc' = [loc EXCEPT ![p].keys = ScanIter(StudentsPattern)]
  /\ UNCHANGED <<users, tokens, clock, wlock, resp, issued, redeemed, revoked,
                 students, cache, tasks, marks, asked, current_expression, last_result>>

\* one turn of its loop: redis_client.delete(key)
InvalidateDelete(p, key) ==
  /\ pc[p] = "invalidate_delete"
  /\ key \in loc[p].keys
  /\ cache' = Delete(key)
  /\ marks' = [marks EXCEPT !.keys = [k \in DOMAIN cache' |-> @[k]]]
  /\ loc' = [loc EXCEPT ![p].keys = @ \ {key}]
  /\ UNCHANGED <<users, tokens, clock, wlock, pc, resp, issued, redeemed, revoked,
                 students, tasks, asked, current_expression, last_result>>

\* the loop is over: the handler returns, the task ends
InvalidateDone(p) ==
  /\ pc[p] = "invalidate_delete"
  /\ loc[p].keys = {}
  /\ Reply(p, loc[p].reply)
  /\ UNCHANGED <<users, tokens, clock, wlock, issued, redeemed, revoked,
                 students, cache, tasks, marks>>

\* a Redis call of invalidate_students_cache raises: the handler ends in a 500
\* after its commit, with the keys not yet deleted left in place
InvalidateFails(p) ==
  /\ pc[p] \in {"invalidate", "invalidate_delete"}
  /\ Reply(p, Response(loc[p].reply.op, 500, "redis.ConnectionError",
                       loc[p].reply.presented, 0, 0))
  /\ marks' = [held |-> [q \in Procs |->
                          IF pc[q] \in {"list_put", "get_put"}
                          THEN [marks.held[q] EXCEPT !.kept = TRUE]
                          ELSE marks.held[q]],
               keys |-> [k \in DOMAIN cache |->
                           [marks.keys[k] EXCEPT !.kept = TRUE]]]
  /\ UNCHANGED <<users, tokens, clock, wlock, issued, redeemed, revoked,
                 students, cache, tasks>>

\* GET /students: the dependency, the cache lookup and the answer from the cache
ListStudents(p, auth_header, access_token_q) ==
  /\ pc[p] = "idle"
  /\ LET s == TokenStr(auth_header, access_token_q)
         out == GateOutcome(s, clock)
         cached == RedisGet(ListKey)
     IN IF out # "ok"
        THEN Reply(p, Response("list", 401, out, s, 0, 0))
        ELSE IF Truthy(cached)
        THEN Reply(p, WithBody(Response("list", 200, "from cache", s, 0, 0),
                               JsonLoads(cached)))
        ELSE Goto(p, "list_read", [NoLoc EXCEPT !.presented = s])
  /\ UNCHANGED <<users, tokens, clock, wlock, issued, redeemed, revoked,
                 students, cache, tasks, marks>>

\* repo.list() and the dump of its rows
ListRead(p) ==
  /\ pc[p] = "list_read"
  /\ pc' = [pc EXCEPT ![p] = "list_put"]
  /\ loc' = [loc EXCEPT ![p].data = RowsFrom(1)]
  /\ UNCHANGED <<users, tokens, clock, wlock, resp, issued, redeemed, revoked,
                 students, cache, tasks, marks, asked, current_expression, last_result>>

\* redis_client.setex(cache_key, 60, json.dumps(data)); return data
ListPut(p) ==
  /\ pc[p] = "list_put"
  /\ cache' = SetEx(ListKey, CacheTtl, JsonDumps(loc[p].data))
  /\ StaleAfterPut(p, ListKey)
  /\ Reply(p, WithBody(Response("list", 200, "from store", loc[p].presented, 0, 0),
                       loc[p].data))
  /\ UNCHANGED <<users, tokens, clock, wlock, issued, redeemed, revoked,
                 students, tasks>>

\* GET /students/{student_id}: dependency, cache lookup, answer from the cache
GetStudent(p, auth_header, access_token_q, student_id) ==
  /\ pc[p] = "idle"
  /\ LET s == TokenStr(auth_header, access_token_q)
         out == GateOutcome(s, clock)
         cached == RedisGet(ItemKey(student_id))
     IN IF out # "ok"
        THEN Reply(p, Response("get", 401, out, s, 0, 0))
        ELSE IF Truthy(cached)
        THEN Reply(p, WithBody(Response("get", 200, "from cache", s, 0, 0),
                               JsonLoads(cached)))
        ELSE Goto(p, "get_read", [NoLoc EXCEPT !.presented = s,
                                               !.student_id = student_id])
  /\ UNCHANGED <<users, tokens, clock, wlock, issued, redeemed, revoked,
                 students, cache, tasks, marks>>

\* repo.get(student_id), the 404, and the dump of the row
GetRead(p) ==
  /\ pc[p] = "get_read"
  /\ LET found == StudentById(loc[p].student_id) IN
     IF found = {}
     THEN Reply(p, Response("get", 404, "Student not found", loc[p].presented, 0, 0))
     ELSE Goto(p, "get_put",
               [loc[p] EXCEPT !.data = StudentOut(CHOOSE x \in found : TRUE)])
  /\ UNCHANGED <<users, tokens, clock, wlock, issued, redeemed, revoked,
                 students, cache, tasks, marks>>

\* redis_client.setex(cache_key, 60, json.dumps(data)); return data
GetPut(p) ==
  /\ pc[p] = "get_put"
  /\ cache' = SetEx(ItemKey(loc[p].student_id), CacheTtl, JsonDumps(loc[p].data))
  /\ StaleAfterPut(p, ItemKey(loc[p].student_id))
  /\ Reply(p, WithBody(Response("get", 200, "from store", loc[p].presented, 0, 0),
                       loc[p].data))
  /\ UNCHANGED <<users, tokens, clock, wlock, issued, redeemed, revoked,
                 students, tasks>>

\* a task as background_tasks.add_task queues it
Task(kind, path, ids) == [kind |-> kind, path |-> path, ids |-> ids]

\* POST /students/import-csv
ImportStudentsFromCsv(p, auth_header, access_token_q, path) ==
  /\ pc[p] = "idle"
  /\ LET s == TokenStr(auth_header, access_token_q)
         gate == RequireWriteUser(s, clock)
     IN IF gate[1] # 200
        THEN /\ Reply(p, Response("import", gate[1], gate[2], s, 0, 0))
             /\ UNCHANGED tasks
        ELSE /\ Len(tasks) < MaxTasks
             /\ tasks' = Append(tasks, Task("import", path, {}))
             /\ Reply(p, Response("import", 202, "CSV import scheduled", s, 0, 0))
  /\ UNCHANGED <<users, tokens, clock, wlock, issued, redeemed, revoked,
                 students, cache, marks>>

\* POST /students/bulk-delete
BulkDeleteStudents(p, auth_header, access_token_q, ids) ==
  /\ pc[p] = "idle"
  /\ LET s == TokenStr(auth_header, access_token_q)
         gate == RequireWriteUser(s, clock)
     IN IF gate[1] # 200
        THEN /\ Reply(p, Response("bulk_delete", gate[1], gate[2], s, 0, 0))
             /\ UNCHANGED tasks
        ELSE IF ids = {}
        THEN /\ Reply(p, Response("bulk_delete", 202,
                                  "No IDs provided, nothing to delete", s, 0, 0))
             /\ UNCHANGED tasks
        ELSE /\ Len(tasks) < MaxTasks
             /\ tasks' = Append(tasks, Task("bulk_delete", "", ids))
             /\ Reply(p, Response("bulk_delete", 202, "Bulk delete scheduled", s, 0, 0))
  /\ UNCHANGED <<users, tokens, clock, wlock, issued, redeemed, revoked,
                 students, cache, marks>>

\* the rows of a file the import adds, numbered from the next rowid on
RECURSIVE ImportedFrom(_, _)
ImportedFrom(rows, id) ==
  IF rows = <<>> THEN {}
  ELSE IF Imported(Head(rows))
       THEN {NewStudent(id, CsvStudent(Head(rows)))} \cup ImportedFrom(Tail(rows), id + 1)
       ELSE ImportedFrom(Tail(rows), id)

CommittedRowByRow(file, id) == ImportedFrom(file.rows, id)

\* the rows an import has committed when open() or the reader raises: the one
\* db.commit() comes after the loop, and db.close() drops what was added
CommittedBeforeFailure(file, id) == {}

\* import_students_from_csv_task up to its commit; open() or the reader
\* raising ends the task
ImportStudentsFromCsvTask(p) ==
  /\ pc[p] = "idle"
  /\ tasks # <<>>
  /\ Head(tasks).kind = "import"
  /\ tasks' = Tail(tasks)
  /\ LET file == CsvFiles[Head(tasks).path]
         added == ImportedFrom(file.rows, NewId)
     IN IF ~file.exists \/ ~file.decodes
        THEN /\ Reply(p, NoResponse)
             /\ students' = students \cup CommittedBeforeFailure(file, NewId)
        ELSE /\ WriteLockFree(p)
             /\ \A s \in added : s.id <= MaxId
             /\ students' = students \cup added
             /\ Goto(p, "invalidate", NoLoc)
  /\ StaleAfterCommit
  /\ UNCHANGED <<users, tokens, clock, wlock, issued, redeemed, revoked, cache>>

\* bulk_delete_students_task up to its commit
BulkDeleteStudentsTask(p) ==
  /\ pc[p] = "idle"
  /\ tasks # <<>>
  /\ Head(tasks).kind = "bulk_delete"
  /\ tasks' = Tail(tasks)
  /\ WriteLockFree(p)
  /\ students' = {s \in students : s.id \notin Head(tasks).ids}
  /\ Goto(p, "invalidate", NoLoc)
  /\ StaleAfterCommit
  /\ UNCHANGED <<users, tokens, clock, wlock, issued, redeemed, revoked, cache>>

\* a statement or the commit of a background task raises (the database is
\* locked or unreachable): `finally: db.close()` ends the task
TaskStorageFailure(p) ==
  /\ pc[p] = "idle"
  /\ tasks # <<>>
  /\ tasks' = Tail(tasks)
  /\ Reply(p, NoResponse)
  /\ UNCHANGED <<users, tokens, clock, wlock, issued, redeemed, revoked,
                 students, cache, marks>>

----------------------------------------------------------------------------
(* Specifications *)

RegisterSteps(p) ==
  \/ \E payload \in RegisterPayloads : RegisterLookup(p, payload)
  \/ RegisterCommit(p)

LoginSteps(p) ==
  \/ \E payload \in LoginPayloads : LoginLookup(p, payload)
  \/ LoginDeactivate(p)
  \/ \E g \in GeneratedPairs : LoginInsert(p, g[1], g[2])

RefreshSteps(p) ==
  \/ \E s \in RefreshStrings : RefreshLookup(p, s)
  \/ \E g \in GeneratedPairs : RefreshCommit(p, g[1], g[2])

LogoutSteps(p) ==
  \/ \E c \in Credentials : LogoutGate(p, c[1], c[2])
  \/ LogoutCommit(p)

GateSteps(p) == \E c \in Credentials : ValidateAccess(p, c[1], c[2])

\* requests handled one at a time, from an empty database, as time passes
Next ==
  \/ RegisterSteps("p1")
  \/ LoginSteps("p1")
  \/ RefreshSteps("p1")
  \/ LogoutSteps("p1")
  \/ GateSteps("p1")
  \/ \E t \in Instants : Tick(t)

Spec == Init /\ [][Next]_vars

\* the users table once alice and bob have registered
Registered ==
  << [username |-> "alice", password_hash |-> HashPassword("pw1"),
      is_readonly |-> FALSE, is_active |-> TRUE],
     [username |-> "bob", password_hash |-> HashPassword("pw2"),
      is_readonly |-> TRUE, is_active |-> TRUE] >>

\* both users registered, no token issued yet
InitConc ==
  /\ Init!2 /\ Init!3 /\ Init!4 /\ Init!5 /\ Init!6 /\ Init!7 /\ Init!8
  /\ Init!9 /\ Init!10 /\ Init!11 /\ Init!12 /\ Init!13 /\ Init!14 /\ Init!15
  /\ Init!16 /\ Init!17
  /\ users = Registered

\* two requests in flight
NextConc ==
  \/ \E p \in Workers : LoginSteps(p)
  \/ \E p \in Workers : RefreshSteps(p)
  \/ \E p \in Workers : LogoutSteps(p)
  \/ \E p \in Workers : WriteTimeout(p)

SpecConc == InitConc /\ [][NextConc]_vars

\* requests handled one at a time while users are deactivated and time passes
NextAdmin ==
  \/ LoginSteps("p1")
  \/ RefreshSteps("p1")
  \/ LogoutSteps("p1")
  \/ GateSteps("p1")
  \/ \E uid \in DOMAIN users : AdminDeactivate(uid)
  \/ \E t \in Instants : Tick(t)

SpecAdmin == InitConc /\ [][NextAdmin]_vars

\* every pair generate_token_pair can return: two independent random strings
AnyPairs == AccessStrings \X RefreshStrings

\* requests handled one at a time, with a generator that may repeat a string
NextCollide ==
  \/ \E payload \in LoginPayloads : LoginLookup("p1", payload)
  \/ LoginDeactivate("p1")
  \/ \E g \in AnyPairs : LoginInsert("p1", g[1], g[2])
  \/ \E s \in RefreshStrings : RefreshLookup("p1", s)
  \/ \E g \in AnyPairs : RefreshCommit("p1", g[1], g[2])
  \/ LogoutSteps("p1")

SpecCollide == InitConc /\ [][NextCollide]_vars

\* both users registered, each logged in once, no student recorded
InitStudents ==
  /\ users = Registered
  /\ tokens = << NewToken(1, 1, 1, 0, 0), NewToken(2, 2, 2, 0, 0) >>
  /\ issued = 2
  /\ clock = 0
  /\ wlock = None
  /\ pc = [p \in Procs |-> "idle"]
  /\ loc = [p \in Procs |-> NoLoc]
  /\ resp = [p \in Procs |-> NoResponse]
  /\ redeemed = {}
  /\ revoked = {}
  /\ students = {}
  /\ cache = [k \in {} |-> <<>>]
  /\ tasks = <<>>
  /\ marks = [held |-> [p \in Procs |-> Matching], keys |-> [k \in {} |-> <<>>]]
  /\ asked = [p \in Procs |-> NoRequest]
  /\ current_expression = None
  /\ last_result = <<>>

\* no other request or task is in flight
Quiet(p) == \A q \in Procs \ {p} : pc[q] = "idle"

\* the credentials a client can hold: no token, or a string that was issued
IssuedCredentials == {c \in Credentials : c[1][2] <= issued}

StudentRequests(p) ==
  \E c \in IssuedCredentials :
    \/ \E payload \in StudentPayloads : CreateStudent(p, c[1], c[2], payload)
    \/ \E id \in StudentIds, u \in UpdatePayloads : UpdateStudent(p, c[1], c[2], id, u)
    \/ \E id \in StudentIds : DeleteStudent(p, c[1], c[2], id)
    \/ \E path \in DOMAIN CsvFiles : ImportStudentsFromCsv(p, c[1], c[2], path)
    \/ \E ids \in BulkDeletePayloads : BulkDeleteStudents(p, c[1], c[2], ids)
    \/ ListStudents(p, c[1], c[2])
    \/ \E id \in StudentIds : GetStudent(p, c[1], c[2], id)

ReadSteps(p) == ListRead(p) \/ ListPut(p) \/ GetRead(p) \/ GetPut(p)

InvalidateSteps(p) ==
  \/ InvalidateScan(p)
  \/ \E key \in DOMAIN cache : InvalidateDelete(p, key)
  \/ InvalidateDone(p)

TaskSteps(p) ==
  \/ ImportStudentsFromCsvTask(p)
  \/ BulkDeleteStudentsTask(p)
  \/ TaskStorageFailure(p)

\* the students service with requests and background tasks run one at a time
NextStudents ==
  \/ Quiet("p1") /\ StudentRequests("p1")
  \/ ReadSteps("p1")
  \/ InvalidateSteps("p1")
  \/ Quiet("bg") /\ TaskSteps("bg")
  \/ InvalidateSteps("bg")
  \/ \E t \in Instants : t <= AccessLifetime + 1 /\ Tick(t)

SpecStudents == InitStudents /\ [][NextStudents]_vars

\* the credentials of the pair InitStudents gives user uid
PairOf(uid) == <<<<"Bearer", uid>>, 0>>

\* the requests of a client that only reads, with bob's token: the list, and
\* the record the first create adds
ReaderSteps(p) ==
  \/ ListStudents(p, PairOf(2)[1], PairOf(2)[2])
  \/ GetStudent(p, PairOf(2)[1], PairOf(2)[2], 1)
  \/ ReadSteps(p)

\* the requests of a client that writes, with alice's token; Redis may fail it
WriterSteps(p) ==
  \/ \E payload \in StudentPayloads :
       CreateStudent(p, PairOf(1)[1], PairOf(1)[2], payload)
  \/ \E id \in StudentIds, u \in UpdatePayloads :
       UpdateStudent(p, PairOf(1)[1], PairOf(1)[2], id, u)
  \/ \E id \in StudentIds : DeleteStudent(p, PairOf(1)[1], PairOf(1)[2], id)
  \/ InvalidateSteps(p)
  \/ InvalidateFails(p)

\* a reading and a writing request in flight together
NextCache ==
  \/ ReaderSteps("p1")
  \/ WriterSteps("p2")
  \/ \E t \in Instants : t <= AccessLifetime /\ Tick(t)

SpecCache == InitStudents /\ [][NextCache]_vars

\* requests to the gate with every combination of header and query parameter,
\* between logins and logouts, as time passes
NextGate ==
  \/ \E c \in GateCredentials : ValidateAccess("p1", c[1], c[2])
  \/ LoginSteps("p1")
  \/ LogoutSteps("p1")
  \/ \E t \in Instants : Tick(t)

SpecGate == InitStudents /\ [][NextGate]_vars

\* create, update and delete requests with every credential, between logouts
\* and deactivations of users, as time passes; no request reads, so that the
\* cache holds no key for an invalidation to delete
NextWrites ==
  \/ \E c \in Credentials :
       \/ \E payload \in StudentPayloads : CreateStudent("p1", c[1], c[2], payload)
       \/ \E id \in StudentIds, u \in UpdatePayloads : UpdateStudent("p1", c[1], c[2], id, u)
       \/ \E id \in StudentIds : DeleteStudent("p1", c[1], c[2], id)
  \/ InvalidateScan("p1")
  \/ InvalidateDone("p1")
  \/ LogoutSteps("p1")
  \/ \E uid \in DOMAIN users : AdminDeactivate(uid)
  \/ \E t \in Instants : Tick(t)

SpecWrites == InitStudents /\ [][NextWrites]_vars

----------------------------------------------------------------------------
(* Token lifecycle: properties *)

RowsOf(uid) == {i \in DOMAIN tokens : tokens[i].user_id = uid}

ActiveRowsOf(uid) == {i \in RowsOf(uid) : tokens[i].is_active}

AtMostOneActive == \A uid \in DOMAIN users : Cardinality(ActiveRowsOf(uid)) <= 1

\* the step in which request p commits a login
LoginCommitted(p) == pc[p] = "login_insert" /\ resp'[p].status = 200

\* the step in which request p commits a rotation
RefreshCommitted(p) == pc[p] = "refresh_commit" /\ resp'[p].status = 200

\* the password username was registered with
CorrectPassword(username) ==
  (CHOOSE rp \in RegisterPayloads : rp.username = username).password

\* C1: with requests handled one at a time, no user ever owns two active token
\* rows, and a login that succeeds deactivates every row the user owned, leaves
\* the rows of other users as they were and appends exactly one active row.
C1_OneActivePairPerUser ==
  /\ []AtMostOneActive
  /\ [][\A p \in Procs : LoginCommitted(p) =>
          /\ Len(tokens') = Len(tokens) + 1
          /\ tokens'[Len(tokens')].is_active
          /\ tokens'[Len(tokens')].user_id = loc[p].uid
          /\ \A i \in DOMAIN tokens :
               tokens'[i] = IF tokens[i].user_id = loc[p].uid
                            THEN [tokens[i] EXCEPT !.is_active = FALSE]
                            ELSE tokens[i]]_vars

\* a second login of a user has succeeded: the user owns an inactive and an
\* active row, while another user keeps an active row
C1_Witness ==
  /\ resp["p1"].op = "login" /\ resp["p1"].status = 200
  /\ \E u, v \in DOMAIN users :
       /\ u # v
       /\ Cardinality(RowsOf(u)) = 2 /\ Cardinality(ActiveRowsOf(u)) = 1
       /\ Cardinality(ActiveRowsOf(v)) = 1

\* C2: a rotation that succeeds answers with an access and a refresh token
\* that both differ from the ones its row held, and every refresh request that
\* presents a refresh string already rotated away is answered 401.
C2_RotationReplacesBoth ==
  /\ [][\A p \in Procs : RefreshCommitted(p) =>
          /\ resp'[p].access_token # tokens[loc[p].row].access_token
          /\ resp'[p].refresh_token # tokens[loc[p].row].refresh_token
          /\ resp'[p].refresh_token # loc[p].presented]_vars
  /\ [][\A p \in Procs, s \in RefreshStrings :
          (RefreshLookup(p, s) /\ s \in redeemed) =>
             /\ resp'[p].status = 401
             /\ resp'[p].detail = "Invalid or expired refresh token"]_vars

\* the old refresh string of a rotated, still active and unexpired pair was
\* presented again and refused
C2_Witness ==
  /\ resp["p1"].op = "refresh" /\ resp["p1"].status = 401
  /\ resp["p1"].presented \in redeemed
  /\ \E i \in DOMAIN tokens :
       /\ tokens[i].is_active
       /\ ~RefreshExpired(tokens[i], clock)
       /\ tokens[i].refresh_token # resp["p1"].presented

\* C3: a request presenting an access token whose row has access_expires_at
\* earlier than the clock is answered 401 even if the row is active, and
\* is_active of a row changes only when a login or a logout commits.
C3_ExpiredAccessRejected ==
  /\ [][\A p \in Procs, c \in Credentials :
          (/\ ValidateAccess(p, c[1], c[2])
           /\ \E i \in DOMAIN tokens :
                /\ tokens[i].access_token = TokenStr(c[1], c[2])
                /\ tokens[i].access_expires_at < clock) =>
             resp'[p].status = 401]_vars
  /\ [][(\E i \in DOMAIN tokens : tokens'[i].is_active # tokens[i].is_active) =>
          \E p \in Procs : pc[p] \in {"login_insert", "logout_commit"}]_vars

\* an expired access token was refused while its row is still active
C3_Witness ==
  /\ resp["p1"].op = "validate" /\ resp["p1"].status = 401
  /\ \E i \in DOMAIN tokens :
       /\ tokens[i].access_token = resp["p1"].presented
       /\ tokens[i].is_active
       /\ tokens[i].access_expires_at < clock

\* C4: once a logout has deactivated a pair, every request presenting that
\* pair's access token is answered 401.
C4_LoggedOutAccessRejected ==
  [][\A p \in Procs, c \in Credentials :
       (ValidateAccess(p, c[1], c[2]) /\ TokenStr(c[1], c[2]) \in revoked) =>
          resp'[p].status = 401]_vars

\* the access token of a logged out, unexpired pair was refused after its
\* user had logged in again
C4_Witness ==
  /\ resp["p1"].op = "validate" /\ resp["p1"].status = 401
  /\ resp["p1"].presented \in revoked
  /\ \E i, j \in DOMAIN tokens :
       /\ tokens[i].access_token = resp["p1"].presented
       /\ ~AccessExpired(tokens[i], clock)
       /\ j > i /\ tokens[j].user_id = tokens[i].user_id /\ tokens[j].is_active

\* C5: a logout request presenting the access token of a pair that a logout
\* has already deactivated leaves the pair inactive and is not answered with
\* an error.
C5_LogoutIdempotent ==
  [][\A p \in Procs, c \in Credentials :
       (LogoutGate(p, c[1], c[2]) /\ TokenStr(c[1], c[2]) \in revoked) =>
          /\ resp'[p].status < 400
          /\ \A i \in DOMAIN tokens :
               tokens[i].access_token = TokenStr(c[1], c[2]) => ~tokens'[i].is_active]_vars

\* C6: a login with an unregistered username or with another password than
\* the registered one is answered 401 "Invalid username or password" and ends
\* there, with the tokens table as it was.
C6_FailedLoginChangesNothing ==
  [][\A p \in Procs, payload \in LoginPayloads :
       (/\ LoginLookup(p, payload)
        /\ \/ \A i \in DOMAIN users : users[i].username # payload.username
           \/ payload.password # CorrectPassword(payload.username)) =>
          /\ resp'[p].status = 401
          /\ resp'[p].detail = "Invalid username or password"
          /\ pc'[p] = "idle"
          /\ tokens' = tokens]_vars

\* a login was refused while the named user is registered and owns an active pair
C6_Witness ==
  /\ resp["p1"].op = "login" /\ resp["p1"].status = 401
  /\ \E u \in DOMAIN users : ActiveRowsOf(u) # {}
  /\ \A u \in DOMAIN users : RowsOf(u) # {} => ActiveRowsOf(u) # {}
  /\ Len(users) = 1

\* a request presents the access string of an active, unexpired pair whose
\* owner is active and read-only
ReadonlyValid(s) ==
  \E i \in DOMAIN tokens :
    /\ tokens[i].access_token = s
    /\ tokens[i].is_active
    /\ tokens[i].access_expires_at >= clock
    /\ users[tokens[i].user_id].is_active
    /\ users[tokens[i].user_id].is_readonly

\* slot p is idle and takes a step that carries token string s: every first
\* step of a students request does
Presents(p, s) ==
  /\ pc[p] = "idle"
  /\ pc'[p] # "idle" \/ resp'[p] # resp[p] \/ tasks' # tasks
  /\ s \in {resp'[p].presented, loc'[p].presented, loc'[p].reply.presented}

\* the first step of a mutating students request of slot p with credentials c
MutatingRequest(p, c) ==
  \/ \E payload \in StudentPayloads : CreateStudent(p, c[1], c[2], payload)
  \/ \E id \in StudentIds, u \in UpdatePayloads : UpdateStudent(p, c[1], c[2], id, u)
  \/ \E id \in StudentIds : DeleteStudent(p, c[1], c[2], id)
  \/ \E path \in DOMAIN CsvFiles : ImportStudentsFromCsv(p, c[1], c[2], path)
  \/ \E ids \in BulkDeletePayloads : BulkDeleteStudents(p, c[1], c[2], ids)

\* the first step of a reading students request
ReadRequest(p, c) ==
  \/ ListStudents(p, c[1], c[2])
  \/ \E id \in StudentIds : GetStudent(p, c[1], c[2], id)

\* C7: a create, update, delete, CSV import or bulk delete request that
\* presents a valid access token of a read-only user is answered 403 and ends
\* there with the students table, the cache and the task queue as they were,
\* while a list or get request with the same token is refused neither 401
\* nor 403.
C7_ReadonlyWritesForbidden ==
  [][\A p \in Procs, c \in Credentials :
       (Presents(p, TokenStr(c[1], c[2])) /\ ReadonlyValid(TokenStr(c[1], c[2]))) =>
         /\ MutatingRequest(p, c) =>
              /\ resp'[p].status = 403
              /\ pc'[p] = "idle"
              /\ students' = students /\ cache' = cache /\ tasks' = tasks
         /\ ReadRequest(p, c) => resp'[p].status \notin {401, 403}]_vars

\* the read-only user was refused a bulk delete while students are recorded
\* and cached, right after the cache had answered the same user's list
C7_Witness ==
  /\ resp["p1"].op = "bulk_delete" /\ resp["p1"].status = 403
  /\ ReadonlyValid(resp["p1"].presented)
  /\ students # {}
  /\ Live(ListKey) /\ JsonLoads(cache[ListKey].value) # <<>>

\* every key the students service uses
StudentKeys == {ListKey} \cup {ItemKey(i) : i \in StudentIds}

\* C8: right after a read handler has put a document under a key, a get of
\* that key returns the document put, and when an invalidation ends, a get of
\* any students key is a miss.
C8_CachePutGetInvalidate ==
  /\ [][\A p \in Procs :
          /\ ListPut(p) =>
               /\ RedisGet(ListKey)' = JsonDumps(loc[p].data)
               /\ JsonLoads(RedisGet(ListKey))' = loc[p].data
          /\ \A id \in StudentIds : (GetPut(p) /\ loc[p].student_id = id) =>
               /\ RedisGet(ItemKey(id))' = JsonDumps(loc[p].data)
               /\ JsonLoads(RedisGet(ItemKey(id)))' = loc[p].data]_vars
  /\ [][\A p \in Procs : InvalidateDone(p) =>
          \A key \in StudentKeys : Len(RedisGet(key))' = 0]_vars

\* the cache answered a list request with a recorded student, and then the
\* invalidation of a background task deleted every key it held, with no ttl
\* run out
C8_Witness ==
  /\ resp["p1"].op = "list" /\ resp["p1"].detail = "from cache"
  /\ resp["p1"].body # <<>>
  /\ pc["bg"] = "invalidate_delete" /\ loc["bg"].keys = {}
  /\ DOMAIN cache = {}
  /\ clock = 0

\* C9: with two requests in flight, no user ever owns two active token rows.
C9_ConcurrentLoginsOneActive == AtMostOneActive

\* two logins of a user who owns an active pair are in flight: one has run its
\* UPDATE and holds the write lock, the other is past its SELECT and waits
C9_Witness ==
  /\ pc["p1"] = "login_insert" /\ pc["p2"] = "login_deactivate"
  /\ loc["p1"].uid = loc["p2"].uid
  /\ wlock = "p1"
  /\ ActiveRowsOf(loc["p1"].uid) # {}

\* C10: a rotation commits only for a refresh string no rotation has
\* committed for before.
C10_RefreshRedeemedOnce ==
  [][\A p \in Procs : RefreshCommitted(p) => loc[p].presented \notin redeemed]_vars

----------------------------------------------------------------------------
(* Students service and cache: properties *)

\* slot p is running invalidate_students_cache
Invalidating(p) == pc[p] \in {"invalidate", "invalidate_delete"}

\* C11: with requests and tasks run one at a time, every step that changes the
\* students table is the commit of a handler or task that goes on to
\* invalidate the cache and has not touched the cache yet, an invalidation is
\* left only by its end, and when it ends the cache holds no key under
\* "students:".
C11_MutationPurgesCache ==
  /\ [][students' # students =>
          /\ cache' = cache
          /\ \E p \in Procs : pc[p] = "idle" /\ pc'[p] = "invalidate"]_vars
  /\ [][\A p \in Procs : (Invalidating(p) /\ ~Invalidating(p)') =>
          /\ InvalidateDone(p)
          /\ \A key \in DOMAIN cache' : key[1] # "students"]_vars

\* the cache answered a get of student 1, then a bulk delete task removed the
\* student and its invalidation emptied the cache, with no ttl run out
C11_Witness ==
  /\ resp["p1"].op = "get" /\ resp["p1"].detail = "from cache"
  /\ resp["p1"].body.id = 1
  /\ StudentById(1) = {}
  /\ \A p \in Procs : pc[p] = "idle"
  /\ tasks = <<>>
  /\ DOMAIN cache = {}
  /\ clock = 0

\* an entry a read would be answered from now, which no failed invalidation
\* left behind
Served(key) == Live(key) /\ ~marks.keys[key].kept

\* C12, for every interleaving: once a mutation has committed and its
\* invalidation has completed, a read of the list or of a record is answered
\* with the store's current content: with no invalidation under way, every
\* entry a read is served from holds what the store holds now
C12_ReadAfterInvalidationCurrent ==
  (\A p \in Procs : ~Invalidating(p)) =>
    \A key \in DOMAIN cache :
      Served(key) => Matches(key, JsonLoads(cache[key].value))

\* C12, apart from entries put with outdated data: once a mutation has
\* committed and its invalidation has completed, a read is answered with the
\* store's current content unless it is served from an entry whose data had
\* already stopped matching the store when a concurrent read put it
C12_ReadAfterInvalidationUnlessPutStale ==
  (\A p \in Procs : ~Invalidating(p)) =>
    \A key \in DOMAIN cache :
      (Served(key) /\ ~marks.keys[key].put_stale) =>
        Matches(key, JsonLoads(cache[key].value))

\* student 1 was read into the cache, an update committed and its
\* invalidation completed, and the next read of student 1 was recomputed from
\* the store and put with the new grade
C12_Witness ==
  /\ resp["p2"].op = "update" /\ resp["p2"].status = 200
  /\ resp["p1"].op = "get" /\ resp["p1"].detail = "from store"
  /\ \E s \in students : s.id = 1 /\ resp["p1"].body = StudentOut(s)
  /\ resp["p1"].body.grade \in {u.grade : u \in UpdatePayloads}
  /\ Served(ItemKey(1))
  /\ ~marks.keys[ItemKey(1)].put_stale
  /\ \A p \in Procs : pc[p] = "idle"

\* an entry a read would be answered from now, whose content has stopped
\* matching the store
ServedStale(key) == Live(key) /\ marks.keys[key].stale

\* C13, counted from the store's change: staleness is bounded by the TTL of
\* 60 s: a read is never answered with
\* a value that stopped matching the store more than the TTL earlier, also
\* when an invalidation failed
C13_StalenessBoundedByTtl ==
  \A key \in DOMAIN cache :
    ServedStale(key) => clock - marks.keys[key].since <= CacheTtl

\* C13, counted from the put: every entry is put with the TTL of 60 s and no
\* operation other than a put of its key changes it, so an entry that matched
\* the store when it was put is never served more than the TTL after it
\* stopped matching, also when the invalidation fails
C13_StalenessBoundedFromPut ==
  /\ [](\A key \in DOMAIN cache :
          (ServedStale(key) /\ ~marks.keys[key].put_stale) =>
            clock - marks.keys[key].since <= CacheTtl)
  /\ [][\A key \in DOMAIN cache' :
          (key \notin DOMAIN cache \/ cache'[key] # cache[key]) =>
            /\ cache'[key].expires_at = clock + CacheTtl
            /\ \E p \in Procs : /\ pc[p] \in {"list_put", "get_put"}
                                /\ HeldKey(p) = key
                                /\ pc'[p] = "idle"]_vars

\* the list was put while it matched, a create committed and its invalidation
\* failed, and the next list was answered from the entry left behind
C13_Witness ==
  /\ resp["p2"].detail = "redis.ConnectionError"
  /\ resp["p1"].op = "list" /\ resp["p1"].detail = "from cache"
  /\ resp["p1"].body # RowsFrom(1)
  /\ ServedStale(ListKey)
  /\ ~marks.keys[ListKey].put_stale

-----------------------------------------------------------------------------
(* Token rotation and validation: properties *)

\* the active rows that hold refresh string s
ActiveRowsWithRefresh(s) ==
  {i \in DOMAIN tokens : tokens[i].is_active /\ tokens[i].refresh_token = s}

\* no active row holds s, or such a row's refresh expiry has passed, or its
\* owner is inactive
RefreshMustFail(s) ==
  \/ ActiveRowsWithRefresh(s) = {}
  \/ \E i \in ActiveRowsWithRefresh(s) :
       \/ tokens[i].refresh_expires_at < clock
       \/ ~users[tokens[i].user_id].is_active

\* C14: a refresh fails as unauthenticated when no active row holds the
\* presented refresh token, when the row's refresh expiry has passed, or when
\* the row's owner is inactive, and it leaves the token rows as they were
C14_RefreshRejectedUnchanged ==
  [][\A s \in RefreshStrings :
       (pc["p1"] = "idle" /\ RefreshMustFail(s) /\ RefreshLookup("p1", s)) =>
         /\ pc'["p1"] = "idle"
         /\ resp'["p1"].op = "refresh" /\ resp'["p1"].status = 401
         /\ resp'["p1"].presented = s
         /\ tokens' = tokens]_vars

\* a refresh with the token of an active, unexpired pair whose owner has been
\* deactivated was answered 401
C14_Witness ==
  /\ resp["p1"].op = "refresh" /\ resp["p1"].status = 401
  /\ \E i \in ActiveRowsWithRefresh(resp["p1"].presented) :
       /\ ~(tokens[i].refresh_expires_at < clock)
       /\ ~users[tokens[i].user_id].is_active

\* C15: a refresh that succeeds rewrites its row in place: the number of rows
\* is unchanged, the row keeps its id, its user_id and is_active = true, both
\* token strings are replaced by the ones returned and both expiries are set
\* anew from the current instant, and every other row is unchanged
C15_RefreshRewritesInPlace ==
  [][\A p \in Procs : RefreshCommitted(p) =>
       /\ Len(tokens') = Len(tokens)
       /\ tokens'[loc[p].row].user_id = tokens[loc[p].row].user_id
       /\ tokens'[loc[p].row].is_active
       /\ tokens'[loc[p].row].access_token # tokens[loc[p].row].access_token
       /\ tokens'[loc[p].row].refresh_token # tokens[loc[p].row].refresh_token
       /\ tokens'[loc[p].row].access_token = resp'[p].access_token
       /\ tokens'[loc[p].row].refresh_token = resp'[p].refresh_token
       /\ tokens'[loc[p].row].access_expires_at = clock + AccessLifetime
       /\ tokens'[loc[p].row].refresh_expires_at = clock + RefreshLifetime
       /\ \A i \in DOMAIN tokens : i # loc[p].row => tokens'[i] = tokens[i]]_vars

\* a refresh succeeded a quarter of an hour after the logins: its row is
\* active with the returned strings and expiries counted from 00:15, beside
\* another user's row
C15_Witness ==
  /\ resp["p1"].op = "refresh" /\ resp["p1"].status = 200
  /\ clock = AccessLifetime
  /\ \E i, j \in DOMAIN tokens :
       /\ i # j /\ tokens[i].user_id # tokens[j].user_id
       /\ tokens[i].is_active
       /\ tokens[i].refresh_token = resp["p1"].refresh_token
       /\ tokens[i].access_expires_at = clock + AccessLifetime
       /\ tokens[i].refresh_expires_at = clock + RefreshLifetime
       /\ tokens[j].refresh_expires_at = RefreshLifetime

\* C16: get_current_token has no side effect on stored state: whether it
\* accepts or rejects, as the whole request or as the dependency of logout,
\* every token row and every user row is as before, so no expiry of a row
\* changes except by a refresh that commits
C16_ValidateAccessNoSideEffect ==
  /\ [][\A c \in Credentials :
          (/\ pc["p1"] = "idle"
           /\ \/ ValidateAccess("p1", c[1], c[2])
              \/ LogoutGate("p1", c[1], c[2])) =>
            tokens' = tokens /\ users' = users]_vars
  /\ [][\A i \in DOMAIN tokens :
          (\/ tokens'[i].access_expires_at # tokens[i].access_expires_at
           \/ tokens'[i].refresh_expires_at # tokens[i].refresh_expires_at) =>
            \E p \in Procs : RefreshCommitted(p) /\ loc[p].row = i]_vars

\* a pair issued at 00:00 was validated at 00:15, the last instant it is
\* valid at, and its row still expires at 00:15
C16_Witness ==
  /\ resp["p1"].op = "validate" /\ resp["p1"].status = 200
  /\ clock = AccessLifetime
  /\ \E i \in DOMAIN tokens :
       /\ tokens[i].is_active
       /\ tokens[i].access_token = resp["p1"].presented
       /\ tokens[i].access_expires_at = clock
       /\ tokens[i].refresh_expires_at = RefreshLifetime

\* the rows of inactive users
RowsOfInactive == {i \in DOMAIN tokens : ~users[tokens[i].user_id].is_active}

\* C17: while a user's is_active is false no pair the user owns passes
\* get_current_token or a refresh, whichever logins, refreshes and logouts
\* produced the pair, a login after the deactivation included: a request that
\* presents a string of such a row is answered 401 and changes no row
C17_InactiveUserPassesNothing ==
  /\ [][\A c \in Credentials :
          (/\ pc["p1"] = "idle"
           /\ \E i \in RowsOfInactive : tokens[i].access_token = TokenStr(c[1], c[2])
           /\ \/ ValidateAccess("p1", c[1], c[2])
              \/ LogoutGate("p1", c[1], c[2])) =>
            /\ pc'["p1"] = "idle"
            /\ resp'["p1"].status = 401
            /\ tokens' = tokens]_vars
  /\ [][\A s \in RefreshStrings :
          (/\ pc["p1"] = "idle"
           /\ \E i \in RowsOfInactive : tokens[i].refresh_token = s
           /\ RefreshLookup("p1", s)) =>
            /\ pc'["p1"] = "idle"
            /\ resp'["p1"].status = 401
            /\ tokens' = tokens]_vars

\* an inactive user owns an earlier row and an active, unexpired row, as a
\* second login leaves them, and the access token of the active row was
\* refused with "User is inactive"
C17_Witness ==
  /\ resp["p1"].op = "validate" /\ resp["p1"].status = 401
  /\ resp["p1"].detail = "User is inactive"
  /\ \E i \in RowsOfInactive :
       /\ tokens[i].is_active
       /\ tokens[i].access_token = resp["p1"].presented
       /\ ~AccessExpired(tokens[i], clock)
       /\ \E j \in RowsOf(tokens[i].user_id) : j < i

\* no two token rows hold the same access string or the same refresh string
TokenStringsUnique ==
  \A i, j \in DOMAIN tokens :
    i # j => /\ tokens[i].access_token # tokens[j].access_token
             /\ tokens[i].refresh_token # tokens[j].refresh_token

\* a row other than self holds access string a or refresh string r
Collides(a, r, self) ==
  \E i \in DOMAIN tokens \ {self} :
    tokens[i].access_token = a \/ tokens[i].refresh_token = r

\* C18: in every reachable state no two token rows share an access_token or
\* a refresh_token: a login or a refresh whose generated string is held by
\* another row fails with a uniqueness violation and leaves every row as it
\* was, instead of overwriting one
C18_TokenStringsUnique ==
  /\ []TokenStringsUnique
  /\ [][\A g \in AnyPairs :
          (LoginInsert("p1", g[1], g[2]) /\ Collides(g[1], g[2], 0)) =>
            /\ resp'["p1"].status = 500
            /\ resp'["p1"].detail = "IntegrityError"
            /\ tokens' = tokens]_vars
  /\ [][\A g \in AnyPairs :
          (RefreshCommit("p1", g[1], g[2]) /\ Collides(g[1], g[2], loc["p1"].row)) =>
            /\ resp'["p1"].status = 500
            /\ resp'["p1"].detail = "IntegrityError"
            /\ tokens' = tokens]_vars

\* a refresh generated a string another user's row holds and failed: both
\* users keep their active rows, the presented refresh token is still stored
C18_Witness ==
  /\ resp["p1"].op = "refresh" /\ resp["p1"].status = 500
  /\ resp["p1"].detail = "IntegrityError"
  /\ \E i, j \in DOMAIN tokens :
       /\ tokens[i].user_id # tokens[j].user_id
       /\ tokens[i].is_active /\ tokens[j].is_active
       /\ tokens[i].refresh_token = resp["p1"].presented

-----------------------------------------------------------------------------
(* Registration and absent students: properties *)

\* the user rows that hold username name
UsersNamed(name) == {i \in DOMAIN users : users[i].username = name}

\* C19: registering a username that exists fails with "Username already
\* exists" and leaves the users as they were, a registration with a fresh
\* username adds exactly one active user, and in every reachable state no two
\* users share a username
C19_RegisterUniqueUsername ==
  /\ [](\A i, j \in DOMAIN users : i # j => users[i].username # users[j].username)
  /\ [][\A payload \in RegisterPayloads :
          (RegisterLookup("p1", payload) /\ UsersNamed(payload.username) # {}) =>
            /\ pc'["p1"] = "idle"
            /\ resp'["p1"].status = 400
            /\ resp'["p1"].detail = "Username already exists"
            /\ users' = users]_vars
  /\ [][(RegisterCommit("p1") /\ UsersNamed(loc["p1"].payload.username) = {}) =>
          /\ resp'["p1"].status = 201
          /\ Len(users') = Len(users) + 1
          /\ users'[Len(users')].username = loc["p1"].payload.username
          /\ users'[Len(users')].is_active
          /\ \A i \in DOMAIN users : users'[i] = users[i]]_vars

\* alice and bob are registered, both active, and a further registration of
\* one of them was refused
C19_Witness ==
  /\ resp["p1"].op = "register" /\ resp["p1"].status = 400
  /\ resp["p1"].detail = "Username already exists"
  /\ Len(users) = Cardinality(RegisterPayloads)
  /\ \A payload \in RegisterPayloads : Cardinality(UsersNamed(payload.username)) = 1
  /\ \A i \in DOMAIN users : users[i].is_active

\* C20: an update or a delete of a student id the store does not hold, by a
\* user allowed to write, fails with "Student not found", leaves every
\* student row as it was and does not invalidate the cache: the request ends
\* in its first step with the cache as it was
C20_AbsentStudentNotFound ==
  [][\A c \in IssuedCredentials, id \in StudentIds :
       (/\ pc["p1"] = "idle"
        /\ RequireWriteUser(TokenStr(c[1], c[2]), clock)[1] = 200
        /\ \A s \in students : s.id # id
        /\ \/ \E u \in UpdatePayloads : UpdateStudent("p1", c[1], c[2], id, u)
           \/ DeleteStudent("p1", c[1], c[2], id)) =>
         /\ pc'["p1"] = "idle"
         /\ resp'["p1"].status = 404
         /\ resp'["p1"].detail = "Student not found"
         /\ students' = students
         /\ cache' = cache]_vars

\* with a student recorded and the list in the cache, a delete of an id the
\* store does not hold was answered 404: the student and the entry are there
C20_Witness ==
  /\ resp["p1"].op = "delete" /\ resp["p1"].status = 404
  /\ resp["p1"].detail = "Student not found"
  /\ students # {}
  /\ Live(ListKey)
  /\ JsonLoads(cache[ListKey].value) = RowsFrom(1)
  /\ \A p \in Procs : pc[p] = "idle"

-----------------------------------------------------------------------------
(* Token rows: terminal state, gate, frames and expiries *)

\* the rows with is_active = false
InactiveRows == {i \in DOMAIN tokens : ~tokens[i].is_active}

\* a row that is inactive stays a row and stays inactive
InactiveStaysInactive ==
  \A i \in InactiveRows : i \in DOMAIN tokens' /\ ~tokens'[i].is_active

\* C21: inactive is a terminal state of a token row: no login, refresh,
\* logout or validation makes an inactive row active again, and a request
\* that presents the access or the refresh string of an inactive row is
\* answered 401 by get_current_token and by refresh
C21_InactiveIsTerminal ==
  /\ [][InactiveStaysInactive]_vars
  /\ [][\A c \in Credentials :
          (/\ pc["p1"] = "idle"
           /\ \E i \in InactiveRows : tokens[i].access_token = TokenStr(c[1], c[2])
           /\ \/ ValidateAccess("p1", c[1], c[2])
              \/ LogoutGate("p1", c[1], c[2])) =>
            pc'["p1"] = "idle" /\ resp'["p1"].status = 401]_vars
  /\ [][\A s \in RefreshStrings :
          (/\ pc["p1"] = "idle"
           /\ \E i \in InactiveRows : tokens[i].refresh_token = s
           /\ RefreshLookup("p1", s)) =>
            pc'["p1"] = "idle" /\ resp'["p1"].status = 401]_vars

\* the refresh token of a pair that a later login of its user deactivated
\* was refused while it had not expired and the user held an active pair
C21_Witness ==
  /\ resp["p1"].op = "refresh" /\ resp["p1"].status = 401
  /\ \E i \in InactiveRows :
       /\ tokens[i].refresh_token = resp["p1"].presented
       /\ ~RefreshExpired(tokens[i], clock)
       /\ resp["p1"].presented \notin revoked
       /\ \E j \in ActiveRowsOf(tokens[i].user_id) : j > i

\* the header is "Bearer <token>" with a token that is not empty
BearerGiven(auth_header) == auth_header[1] = "Bearer" /\ auth_header[2] # 0

\* C22: the gate takes the token from an "Authorization: Bearer <token>"
\* header when that gives a non-empty string and from the access_token query
\* parameter only otherwise; with neither the request fails 401, and a header
\* token that is not valid fails the request also when the query parameter
\* holds a valid token
C22_HeaderBeforeQuery ==
  [][\A c \in GateCredentials :
       ValidateAccess("p1", c[1], c[2]) =>
         /\ BearerGiven(c[1]) =>
              /\ resp'["p1"].presented = c[1][2]
              /\ resp'["p1"].status = IF GateOutcome(c[1][2], clock) = "ok" THEN 200 ELSE 401
         /\ (~BearerGiven(c[1]) /\ c[2] # 0) =>
              /\ resp'["p1"].presented = c[2]
              /\ resp'["p1"].status = IF GateOutcome(c[2], clock) = "ok" THEN 200 ELSE 401
         /\ (~BearerGiven(c[1]) /\ c[2] = 0) =>
              /\ resp'["p1"].status = 401
              /\ resp'["p1"].detail = "Missing access token"]_vars

\* a request with the access token of a logged out pair in its header and a
\* valid access token in its query parameter was answered 401
C22_Witness ==
  /\ resp["p1"].op = "validate" /\ resp["p1"].status = 401
  /\ BearerGiven(asked["p1"][1])
  /\ asked["p1"][1][2] \in revoked
  /\ asked["p1"][2] # 0
  /\ GateOutcome(asked["p1"][2], clock) = "ok"

\* string s is the access token of an active, unexpired pair of an active user
Authenticated(s) ==
  \E i \in DOMAIN tokens :
    /\ tokens[i].access_token = s
    /\ tokens[i].is_active
    /\ ~(tokens[i].access_expires_at < clock)
    /\ users[tokens[i].user_id].is_active

\* the first step of a create, update or delete request with credentials c
WriteRequest(c) ==
  \/ \E payload \in StudentPayloads : CreateStudent("p1", c[1], c[2], payload)
  \/ \E id \in StudentIds, u \in UpdatePayloads : UpdateStudent("p1", c[1], c[2], id, u)
  \/ \E id \in StudentIds : DeleteStudent("p1", c[1], c[2], id)

\* C23: authentication is decided before authorization: a write request is
\* answered 403 only when its token passed get_current_token, and a write
\* request whose token is missing, unknown, inactive, expired or of an
\* inactive user is answered 401 and ends there, whether or not the owner is
\* read-only
C23_AuthenticationBeforeAuthorization ==
  [][\A c \in Credentials :
       (Presents("p1", TokenStr(c[1], c[2])) /\ WriteRequest(c)) =>
         /\ resp'["p1"].status = 403 => Authenticated(TokenStr(c[1], c[2]))
         /\ ~Authenticated(TokenStr(c[1], c[2])) =>
              /\ resp'["p1"].status = 401
              /\ pc'["p1"] = "idle"
              /\ students' = students]_vars

\* a create with the access token of a logged out, unexpired pair of an
\* active read-only user was answered 401
C23_Witness ==
  /\ resp["p1"].op = "create" /\ resp["p1"].status = 401
  /\ \E i \in InactiveRows :
       /\ tokens[i].access_token = resp["p1"].presented
       /\ ~AccessExpired(tokens[i], clock)
       /\ users[tokens[i].user_id].is_readonly
       /\ users[tokens[i].user_id].is_active

-----------------------------------------------------------------------------
(* Background tasks, frames and expiries: properties *)

\* the step in which the task at the head of the queue fails before its commit
TaskFails(p) ==
  /\ pc[p] = "idle"
  /\ tasks # <<>>
  /\ \/ /\ Head(tasks).kind = "import"
        /\ ~CsvFiles[Head(tasks).path].exists \/ ~CsvFiles[Head(tasks).path].decodes
        /\ ImportStudentsFromCsvTask(p)
     \/ TaskStorageFailure(p)

\* C24: a CSV import or bulk delete task that fails before its commit is
\* abandoned: no student row is inserted or deleted by it, the cache is not
\* invalidated by it, and the task leaves the queue and is not run again
C24_FailedTaskAbandoned ==
  [][\A p \in Procs : TaskFails(p) =>
       /\ students' = students
       /\ cache' = cache
       /\ pc'[p] = "idle"
       /\ tasks' = Tail(tasks)]_vars

\* the list was cached for an empty table, an import was accepted and its
\* task has ended: no student was added and the cached list is still there
C24_Witness ==
  /\ resp["p1"].op = "import" /\ resp["p1"].status = 202
  /\ tasks = <<>>
  /\ \A p \in Procs : pc[p] = "idle"
  /\ students = {}
  /\ Live(ListKey)

\* C25: after a refresh has succeeded, the access token its row held before
\* no longer passes get_current_token: the rotation revokes the old access
\* token together with the old refresh token
C25_RotationRevokesOldAccess ==
  /\ [][\A p \in Procs : RefreshCommitted(p) =>
          \E old \in {tokens[loc[p].row].access_token} :
            GateOutcome(old, clock)' # "ok"]_vars
  /\ [][\A c \in Credentials :
          (/\ pc["p1"] = "idle"
           /\ TokenStr(c[1], c[2]) # 0
           /\ \A i \in DOMAIN tokens : tokens[i].access_token # TokenStr(c[1], c[2])
           /\ ValidateAccess("p1", c[1], c[2])) =>
            resp'["p1"].status = 401]_vars

\* the access token a pair held at login was refused after the pair had been
\* refreshed, while the pair is active and unexpired with its new strings
C25_Witness ==
  /\ resp["p1"].op = "validate" /\ resp["p1"].status = 401
  /\ resp["p1"].presented # 0
  /\ resp["p1"].presented <= issued
  /\ resp["p1"].presented \notin revoked
  /\ \A i \in DOMAIN tokens : tokens[i].access_token # resp["p1"].presented
  /\ \E i \in DOMAIN tokens :
       /\ tokens[i].is_active /\ ~AccessExpired(tokens[i], clock)
       /\ tokens[i].refresh_token \notin redeemed
       /\ tokens[i].access_token > resp["p1"].presented
       /\ users[tokens[i].user_id].is_active

\* the user a login, refresh or logout in its writing stage acts for
ActingUser(p) ==
  IF pc[p] = "login_insert" THEN loc[p].uid ELSE tokens[loc[p].row].user_id

\* C26: a login, a refresh and a logout of one user leave every token row of
\* every other user as it was (strings, expiries, is_active); a logout changes
\* nothing but is_active of the pair presented and deletes no row
C26_OtherUsersRowsUntouched ==
  [][\A p \in Procs :
       /\ (pc[p] \in {"login_insert", "refresh_commit", "logout_commit"} /\ pc'[p] = "idle") =>
            \A i \in DOMAIN tokens :
              tokens[i].user_id # ActingUser(p) =>
                i \in DOMAIN tokens' /\ tokens'[i] = tokens[i]
       /\ (pc[p] = "logout_commit" /\ resp'[p].status = 200) =>
            tokens' = [tokens EXCEPT ![loc[p].row].is_active = FALSE]
       /\ (/\ pc[p] = "idle" /\ resp'[p] # resp[p]
            /\ resp'[p].op \in {"login", "refresh", "logout"}) =>
            tokens' = tokens]_vars

\* a pair was logged out and is still stored, inactive, while a pair of another
\* user is active
C26_Witness ==
  /\ resp["p1"].op = "logout" /\ resp["p1"].status = 200
  /\ \E i, j \in DOMAIN tokens :
       /\ tokens[i].access_token = resp["p1"].presented
       /\ ~tokens[i].is_active
       /\ tokens[j].user_id # tokens[i].user_id
       /\ tokens[j].is_active

\* login payloads naming no registered user
UnknownUsername == {pl \in LoginPayloads : UserByUsername(pl.username) = 0}

\* login payloads naming a registered user with another password than theirs
WrongPassword ==
  {pl \in LoginPayloads :
     /\ UserByUsername(pl.username) # 0
     /\ ~VerifyPassword(pl.password, users[UserByUsername(pl.username)].password_hash)}

\* C27: a failed login does not tell whether the username exists: from any
\* state, a login with an unknown username and a login with a wrong password
\* lead to the same state with the same response (status and message), and
\* that state has the users and token rows of the state before
C27_FailedLoginUniform ==
  [][\A p \in Procs :
       (pc[p] = "idle" /\ pc'[p] = "idle" /\ resp'[p].op = "login") =>
         /\ \A un \in UnknownUsername, wp \in WrongPassword :
              LoginLookup(p, un) <=> LoginLookup(p, wp)
         /\ \A pl \in UnknownUsername \cup WrongPassword :
              LoginLookup(p, pl) =>
                /\ users' = users /\ tokens' = tokens /\ wlock' = wlock
                /\ resp'[p].status = 401
                /\ resp'[p].detail = "Invalid username or password"]_vars

\* a login was refused while one of the two usernames is registered and the
\* other is not: the request named either of them
C27_Witness ==
  /\ resp["p1"].op = "login" /\ resp["p1"].status = 401
  /\ UnknownUsername # {}
  /\ WrongPassword # {}
  /\ tokens # <<>>

\* access_expires_at <= refresh_expires_at
ExpiriesOrdered(row) == row.access_expires_at <= row.refresh_expires_at

\* C28: with a clock that never goes back, every token row login created or
\* refresh rewrote has access_expires_at <= refresh_expires_at in every
\* reachable state, the access expiry being 15 minutes and the refresh expiry
\* 7 days after the clock values the operation read
C28_AccessExpiresBeforeRefresh ==
  /\ [](\A i \in DOMAIN tokens : ExpiriesOrdered(tokens[i]))
  /\ [](\A now1, now2 \in Instants :
          now1 <= now2 =>
            /\ ExpiriesOrdered(NewToken(1, 1, 1, now1, now2))
            /\ \A i \in DOMAIN tokens :
                 ExpiriesOrdered(Rotated(tokens[i], <<0, 0>>, 1, 1, now1, now2)))
  /\ [][\A p \in Procs :
          /\ LoginCommitted(p) =>
               /\ tokens'[Len(tokens')].access_expires_at = clock + 15
               /\ tokens'[Len(tokens')].refresh_expires_at = clock + 7 * 24 * 60
          /\ RefreshCommitted(p) =>
               /\ tokens'[loc[p].row].access_expires_at = clock + 15
               /\ tokens'[loc[p].row].refresh_expires_at = clock + 7 * 24 * 60]_vars

\* a pair issued at 0 was refreshed later and a second pair was issued by a
\* login: both carry expiries counted from the instant of their operation
C28_Witness ==
  /\ clock > 0
  /\ resp["p1"].op = "refresh" /\ resp["p1"].status = 200
  /\ \E i, j \in DOMAIN tokens :
       /\ i # j
       /\ tokens[i].access_token = resp["p1"].access_token
       /\ tokens[i].access_expires_at = clock + AccessLifetime
       /\ tokens[i].refresh_expires_at = clock + RefreshLifetime
       /\ tokens[j].refresh_expires_at < tokens[i].refresh_expires_at

\* bodies of PUT /students/{student_id} setting none, one or two fields
PartialUpdates ==
  { <<>>, [grade |-> 60], [faculty |-> "Physics", course |-> "Optics"] }

\* new is old with exactly the fields update_data sets changed
OnlySetFieldsChanged(old, new, update_data) ==
  /\ DOMAIN new = DOMAIN old
  /\ new.id = old.id
  /\ \A f \in DOMAIN old :
       new[f] = IF f \in DOMAIN update_data THEN update_data[f] ELSE old[f]

\* C29: an update of a student changes exactly the fields the request sets:
\* every field the request leaves out, the id, and every other student row
\* stay as they were
C29_UpdateChangesOnlySetFields ==
  /\ [][\A p \in Procs :
          (pc[p] = "idle" /\ pc'[p] = "invalidate" /\ loc'[p].reply.op = "update") =>
            \E old \in students, u \in UpdatePayloads :
              \E new \in {Updated(old, u)} :
                /\ OnlySetFieldsChanged(old, new, u)
                /\ new \in students'
                /\ students' \ {new} = students \ {old}
                /\ loc'[p].reply.body = StudentOut(new)]_vars
  /\ [](\A s \in students, u \in PartialUpdates :
          OnlySetFieldsChanged(s, Updated(s, u), u))

\* a student was updated to the requested grade and has kept its names, and
\* another student still has the grade it was created with
C29_Witness ==
  /\ resp["p1"].op = "update" /\ resp["p1"].status = 200
  /\ \E s, t \in students :
       /\ s.id = resp["p1"].body.id
       /\ s.grade = 60 /\ s.last_name # None /\ s.faculty # None
       /\ t.id # s.id
       /\ t.grade # 60

----------------------------------------------------------------------------
(* hw6t7_app.py: the calculator *)

Abs(n) == IF n < 0 THEN -n ELSE n

RECURSIVE GCD(_, _)
GCD(a, b) == IF b = 0 THEN a ELSE GCD(b, a % b)

\* a float that is a ratio of integers, <<numerator, denominator>> in lowest
\* terms with a positive denominator; d # 0
Float(n, d) ==
  LET g == GCD(Abs(n), Abs(d))
      s == IF d < 0 THEN -1 ELSE 1
  IN <<(s * n) \div g, (s * d) \div g>>

\* Optional[float]: None
NoResult == <<>>

\* nodes of the tree ast.parse(expr, mode="eval") returns, below ast.Expression
Constant(value) == [type |-> "Constant", numeric |-> TRUE, value |-> value]
StrConstant == [type |-> "Constant", numeric |-> FALSE]
Name == [type |-> "Name"]
BinOp(left, o, right) == [type |-> "BinOp", left |-> left, op |-> o, right |-> right]
UnaryOp(o, operand) == [type |-> "UnaryOp", op |-> o, operand |-> operand]
SyntaxError == [type |-> "SyntaxError"]

\* the expression strings requests carry
ExpressionStrings ==
  {"", "2+3", "6/4", "-4", "1/0", "1/(2-2)", "2**3", "~1", "x+1", "'a'", "2+"}

\* ast.parse(expr, mode="eval").body, or SyntaxError when it raises
AstParse(expr) ==
  CASE expr = "2+3" -> BinOp(Constant(2), "Add", Constant(3))
    [] expr = "6/4" -> BinOp(Constant(6), "Div", Constant(4))
    [] expr = "-4" -> UnaryOp("USub", Constant(4))
    [] expr = "1/0" -> BinOp(Constant(1), "Div", Constant(0))
    [] expr = "1/(2-2)" -> BinOp(Constant(1), "Div", BinOp(Constant(2), "Sub", Constant(2)))
    [] expr = "2**3" -> BinOp(Constant(2), "Pow", Constant(3))
    [] expr = "~1" -> UnaryOp("Invert", Constant(1))
    [] expr = "x+1" -> BinOp(Name, "Add", Constant(1))
    [] expr = "'a'" -> StrConstant
    [] OTHER -> SyntaxError

\* what an evaluation ends in: a value, or the exception raised
Value(v) == [error |-> None, detail |-> None, value |-> v]
Raised(error, detail) == [error |-> error, detail |-> detail, value |-> NoResult]

\* _ALLOWED_BIN_OPS[op_type](left, right)
ApplyBinOp(o, l, r) ==
  CASE o = "Add" -> Float(l[1] * r[2] + r[1] * l[2], l[2] * r[2])
    [] o = "Sub" -> Float(l[1] * r[2] - r[1] * l[2], l[2] * r[2])
    [] o = "Mult" -> Float(l[1] * r[1], l[2] * r[2])
    [] o = "Div" -> Float(l[1] * r[2], l[2] * r[1])

\* _ALLOWED_UNARY_OPS[op_type](operand)
ApplyUnaryOp(o, v) == IF o = "USub" THEN Float(-v[1], v[2]) ELSE v

RECURSIVE EvalAst(_)
EvalAst(node) ==
  CASE node.type = "Constant" ->
         IF node.numeric THEN Value(Float(node.value, 1))
         ELSE Raised("ValueError", "Allowed only numeric constants")
    [] node.type = "BinOp" ->
         LET left == EvalAst(node.left) IN
         IF left.error # None THEN left
         ELSE LET right == EvalAst(node.right) IN
              IF right.error # None THEN right
              ELSE IF node.op \notin {"Add", "Sub", "Mult", "Div"}
              THEN Raised("ValueError", "Operation is not allowed")
              ELSE IF node.op = "Div" /\ right.value[1] = 0
              THEN Raised("ZeroDivisionError", "Division by zero in expression")
              ELSE Value(ApplyBinOp(node.op, left.value, right.value))
    [] node.type = "UnaryOp" ->
         LET operand == EvalAst(node.operand) IN
         IF operand.error # None THEN operand
         ELSE IF node.op \notin {"UAdd", "USub"}
         THEN Raised("ValueError", "Operation is not allowed")
         ELSE Value(ApplyUnaryOp(node.op, operand.value))
    [] OTHER -> Raised("ValueError", "Unsupported expression element")

\* evaluate_expression
EvaluateExpression(expr) ==
  LET tree == AstParse(expr) IN
  IF tree = SyntaxError THEN Raised("ValueError", "Invalid expression syntax")
  ELSE EvalAst(tree)

\* the handlers are coroutines without an await: each runs to its return
Return(p, r) ==
  /\ pc[p] = "idle"
  /\ resp' = [resp EXCEPT ![p] = r]
  /\ UNCHANGED <<pc, loc, asked>>
  /\ UNCHANGED <<users, tokens, clock, wlock, issued, redeemed, revoked, students, cache, tasks, marks>>

ExpressionState(expression, result) == [expression |-> expression, last_result |-> result]

\* POST /expression
SetExpression(p, expression) ==
  /\ current_expression' = expression
  /\ last_result' = NoResult
  /\ Return(p, WithBody(Response("set_expression", 200, "ok", 0, 0, 0),
                        ExpressionState(expression, NoResult)))

\* GET /expression
GetExpression(p) ==
  /\ Return(p, WithBody(Response("get_expression", 200, "ok", 0, 0, 0),
                        ExpressionState(current_expression, last_result)))
  /\ UNCHANGED <<current_expression, last_result>>

\* `req is not None and req.expression`
HasExpression(req) == req # None /\ req # ""

\* POST /expression/execute; req: the expression of the body, None without body
ExecuteExpression(p, req) ==
  LET expr == IF HasExpression(req) THEN req ELSE current_expression IN
  /\ current_expression' = expr
  /\ IF expr = None \/ expr = ""
     THEN /\ UNCHANGED last_result
          /\ Return(p, Response("execute", 400, "Expression is not set. Send it in body or call /expression first.", 0, 0, 0))
     ELSE LET out == EvaluateExpression(expr) IN
          IF out.error # None
          THEN /\ UNCHANGED last_result
               /\ Return(p, Response("execute", 400, out.detail, 0, 0, 0))
          ELSE /\ last_result' = out.value
               /\ Return(p, WithBody(Response("execute", 200, "ok", 0, 0, 0),
                                     [expression |-> expr, result |-> out.value]))

\* bodies of /add, /sub, /mul, /div
BinaryOpRequests == { [a |-> a, b |-> b] : a \in {1, 6}, b \in {0, 4} }

\* POST /add, /sub, /mul
BinaryOp(p, o, data) ==
  /\ Return(p, WithBody(Response(o, 200, "ok", 0, 0, 0),
                        [result |-> ApplyBinOp(o, Float(data.a, 1), Float(data.b, 1))]))
  /\ UNCHANGED <<current_expression, last_result>>

\* POST /div
div(p, data) ==
  /\ IF data.b = 0
     THEN Return(p, Response("Div", 400, "Division by zero", 0, 0, 0))
     ELSE Return(p, WithBody(Response("Div", 200, "ok", 0, 0, 0),
                             [result |-> ApplyBinOp("Div", Float(data.a, 1), Float(data.b, 1))]))
  /\ UNCHANGED <<current_expression, last_result>>

NextCalc ==
  \/ \E expression \in ExpressionStrings : SetExpression("p1", expression)
  \/ GetExpression("p1")
  \/ \E req \in ExpressionStrings \cup {None} : ExecuteExpression("p1", req)
  \/ \E data \in BinaryOpRequests : BinaryOp("p1", "Add", data)
  \/ \E data \in BinaryOpRequests : BinaryOp("p1", "Sub", data)
  \/ \E data \in BinaryOpRequests : BinaryOp("p1", "Mult", data)
  \/ \E data \in BinaryOpRequests : div("p1", data)

SpecCalc == Init /\ [][NextCalc]_vars

----------------------------------------------------------------------------
(* The calculator: properties *)

\* C30: after any sequence of set-expression and execute calls, failing
\* executes included, last_result is None or the value the evaluation of the
\* stored current_expression gives
C30_LastResultOfCurrentExpression ==
  \/ last_result = NoResult
  \/ /\ current_expression # None
     /\ EvaluateExpression(current_expression).error = None
     /\ EvaluateExpression(current_expression).value = last_result

====
